---- MODULE Spec2Model ----
(***************************************************************************)
(* State-machine model of the tproxy core: the HTTP/2 engine               *)
(* (src/src/http2.rs, src/src/http2_advanced.rs), the connection registry  *)
(* with graceful shutdown and retry-with-backoff (src/src/graceful.rs),    *)
(* the connection handler and relay loops (src/src/proxy.rs,               *)
(* src/src/state.rs), the challenge and redirect bookkeeping               *)
(* (src/src/challenge.rs) and the process entry point (src/src/main.rs).   *)
(*                                                                         *)
(* Each subsystem has its own specification over the shared variables; the *)
(* variables of the other subsystems keep their initial values.            *)
(***************************************************************************)
EXTENDS Integers, Sequences, FiniteSets, TLC

(***************************************************************************)
(* Program constants.                                                      *)
(***************************************************************************)
INITIAL_WINDOW_SIZE == 1048576

WINDOW_UPDATE_THRESHOLD == 524288

MAX_RETRIES == 3

RETRY_BACKOFF_MS == 100

MAX_REDIRECTS == 10

SESSION_TICKET_LIFETIME == 7200

(***************************************************************************)
(* Bounds of the model.                                                    *)
(***************************************************************************)
\* Number of connections the accept loop accepts in one explored run.
MaxTasks == 2

\* Number of distinct errors the retried operation can fail with.
NumErrors == 4

\* Number of distinct values the retried operation can succeed with.
NumValues == 2

\* Number of engine operations in one explored run (clock ticks excluded).
MaxH2Steps == 4

\* Windows are u32 in the code and saturate at 2^32-1; the model keeps them
\* exact and only takes steps that leave every window at or below this cap,
\* so the saturation point is never reached inside the explored runs.
MaxWindow == 4000000

\* Number of times the clock advances in one explored run of the ticket cache.
MaxClockSteps == 3

\* Number of chunks each peer sends through one explored relay loop.
MaxChunks == 2

\* Stream identifiers carried by received frames and used by the sender.
\* 0 is the connection scope; the code accepts it in every frame type.
FrameIds == {0, 1, 3}

\* DATA sizes offered to can_send_data.
Sizes == {600000, 1048576}

\* Length fields of received DATA frames.
DataLengths == {600000}

\* Increments carried by received WINDOW_UPDATE frames.
Increments == {600000}

(***************************************************************************)
(* Variables.                                                              *)
(***************************************************************************)
VARIABLES
    \* ---- HTTP/2 engine (Http2Handler + FlowController) ----
    connection_window,   \* FlowController.connection_window
    fc_streams,          \* FlowController.streams: id -> [window_size, bytes_sent]
    stream_states,       \* Http2Handler.stream_states: id -> state name
    priority_tree,       \* PriorityTree.streams: id -> [depends_on, weight, exclusive]
    elapsed,             \* last_update_time.elapsed() >= natural_update_interval()
    frames_out,          \* WINDOW_UPDATE frames returned by the last
                         \* check_and_send_window_updates: <<id, increment>>
    h2_op,               \* the operation performed by the last step
    h2_ret,              \* its result
    h2_steps,            \* operations performed so far
    \* history of the engine, per id (0 = connection)
    admitted,            \* bytes for which can_send_data returned true
    wu_received,         \* sum of increments of received WINDOW_UPDATE frames
    data_received,       \* sum of lengths of received DATA frames
    open_data,           \* ... of those received while the stream was Open
    wu_emitted,          \* sum of increments of emitted WINDOW_UPDATE frames
    quiet,               \* a debounce interval has passed since the last DATA
    settled              \* ... and a window-update pass has run after it

h2vars == <<connection_window, fc_streams, stream_states, priority_tree,
            elapsed, frames_out, h2_op, h2_ret, h2_steps,
            admitted, wu_received, data_received, open_data, wu_emitted,
            quiet, settled>>

VARIABLES
    \* ---- connection registry, handler tasks, shutdown ----
    is_shutting_down,    \* GracefulShutdown.is_shutting_down
    gs_connections,      \* GracefulShutdown.connections: id -> [is_closing, idle]
    sm_connections,      \* ConnectionStateManager.connections (the ids)
    next_id,             \* ConnectionStateManager.next_id
    task_pc,             \* position of each spawned handler task
    task_id,             \* conn_id of each handler task (0 before it has one)
    task_kind,           \* relay loop the task runs: "plain" or "h2"
    relay_ret,           \* result of the task's relay loop
    task_result,         \* result of process_connection
    sigint_pc,           \* the task spawned for signal::ctrl_c
    drain_pc             \* position of the graceful_close_all call

regvars == <<is_shutting_down, gs_connections, sm_connections, next_id,
             task_pc, task_id, task_kind, relay_ret, task_result,
             sigint_pc, drain_pc>>

VARIABLES
    \* ---- ConnectionRecovery::retry_with_backoff ----
    retry_pc,            \* position of the call
    attempt,             \* the loop variable
    last_error,          \* last_error (0 = None)
    retry_result,        \* the value returned
    retry_trace          \* the calls of the operation and the sleeps, in order

retryvars == <<retry_pc, attempt, last_error, retry_result, retry_trace>>

corevars == <<h2vars, regvars, retryvars>>

VARIABLES
    \* ---- ChallengeHandler: the redirect chains ----
    redirect_chains,     \* ChallengeHandler.redirect_chains: url -> RedirectChain
    ch_op,               \* the ChallengeHandler call made by the last step
    ch_ret               \* its result

chvars == <<redirect_chains, ch_op, ch_ret>>

VARIABLES
    \* ---- SessionTicketCache ----
    tickets,             \* SessionTicketCache.tickets: domain -> [ticket, timestamp]
    now,                 \* SystemTime::now(), in seconds
    clock_steps,         \* advances of the clock so far
    tls_op,              \* the cache call made by the last step
    tls_ret,             \* its result (0 = None)
    last_store           \* history: domain -> the most recent store [ticket, at]

tlsvars == <<tickets, now, clock_steps, tls_op, tls_ret, last_store>>

VARIABLES
    \* ---- Socks5Connector::connect and the SOCKS5 server ----
    s5_pc,               \* position of the connect call
    s5_creds,            \* username and password are both configured
    s5_tx,               \* messages written to the server, in order
    s5_rx,               \* bytes sent by the server and not yet read
    s5_served,           \* messages of s5_tx the server has answered
    s5_eof,              \* the server has closed the connection
    s5_method,           \* method byte of the selection reply read (-1 = none)
    s5_auth,             \* the sub-negotiation reply read
    s5_reply,            \* head of the CONNECT reply read
    s5_skip,             \* skip_bytes
    s5_result,           \* result of connect
    s5_tunnel_sent,      \* tunnel bytes the server has sent
    s5_dialed            \* TcpStream::connect to the proxy succeeded

s5vars == <<s5_pc, s5_creds, s5_tx, s5_rx, s5_served, s5_eof, s5_method,
            s5_auth, s5_reply, s5_skip, s5_result, s5_tunnel_sent, s5_dialed>>

VARIABLES
    \* ---- the CONNECT and opaque paths of process_connection ----
    dp_pc,               \* position of the handler
    dp_path,             \* "connect" or "opaque"
    dp_proxy_type,       \* proxy_settings.proxy_type
    dp_dial,             \* result of connect_to_target / connect_to_upstream
    dp_client_out,       \* what the handler has written to the client
    dp_upstream_out,     \* what the handler has written upstream
    dp_result,           \* result of the handler
    http_pc,             \* position of HttpsProxyConnector::connect
    http_dialed,         \* its TcpStream::connect succeeded
    http_result          \* its result

dpvars == <<dp_pc, dp_path, dp_proxy_type, dp_dial, dp_client_out,
            dp_upstream_out, dp_result, http_pc, http_dialed, http_result>>

VARIABLES
    \* ---- the data path of one relay loop ----
    rl_kind,             \* "plain" (proxy_bidirectional) or "h2"
    rl_pc,               \* position of the loop
    rl_read,             \* per side, the chunks read from it, in order
    rl_written,          \* per side, what was written to it, in order
    rl_source,           \* the side the chunk in the buffer was read from
    rl_pending,          \* frames of the engine still to write to the server
    rl_zero,             \* a read has returned 0 bytes
    rl_cut,              \* ranks of the client chunks that end inside a frame
    rl_short,            \* ranks of the server chunks shorter than a frame header
    rl_ret               \* result of the loop

rlvars == <<rl_kind, rl_pc, rl_read, rl_written, rl_source, rl_pending,
            rl_zero, rl_cut, rl_short, rl_ret>>

VARIABLES
    \* ---- Http2Frame::serialize and Http2Frame::parse ----
    cd_pc,               \* "new", "frame", "bytes" or "parsed"
    cd_frame,            \* the Http2Frame given to serialize
    cd_buf,              \* the buffer given to parse
    cd_short,            \* the buffer holds only a prefix of the serialized frame
    cd_parsed            \* result of parse

cdvars == <<cd_pc, cd_frame, cd_buf, cd_short, cd_parsed>>

VARIABLES
    \* ---- Http2Handler::handle_incoming_frame ----
    preface_received,    \* Http2Handler.preface_received
    remote_settings,     \* Http2Handler.remote_settings
    hi_chunk,            \* the chunk of the last call: preface or not, frames
    hi_data,             \* its bytes
    hi_ret               \* result of the last call

hivars == <<preface_received, remote_settings, hi_chunk, hi_data, hi_ret>>

VARIABLES
    \* ---- TlsClientHello::parse and to_ios_safari ----
    hello_pc,            \* position of the handler on the first packet
    hello_data,          \* the first packet
    hello_parsed,        \* result of TlsClientHello::parse
    hello_out            \* result of to_ios_safari

hellovars == <<hello_pc, hello_data, hello_parsed, hello_out>>

VARIABLES
    \* ---- ProxyHandler::cleanup_task ----
    cleanup_pc,          \* position of the cleanup task
    to_remove,           \* to_remove of cleanup_idle_connections
    sm_stale,            \* ids whose ConnectionInfo is 300 s old or more
    cu_lapsed            \* history: ids that have been idle at some time

cuvars == <<cleanup_pc, to_remove, sm_stale, cu_lapsed>>

VARIABLES
    \* ---- Http2Handler: the sender side and its use by proxy.rs ----
    next_stream_id,      \* Http2Handler.next_stream_id
    preface_sent,        \* Http2Handler.preface_sent
    eg_pc,               \* position of handle_http2_connection
    eg_preface,          \* bytes returned by build_connection_preface
    eg_op,               \* the engine call made by the last step
    eg_out,              \* the bytes it returned
    eg_steps,            \* engine calls made so far
    goaway_seen          \* history: a GOAWAY frame has been received

egvars == <<next_stream_id, preface_sent, eg_pc, eg_preface, eg_op, eg_out,
            eg_steps, goaway_seen>>

\* The subsystems of the relay path and of the wire formats.
extbase == <<chvars, tlsvars, s5vars, dpvars, rlvars>>

auxvars == <<cdvars, hivars, hellovars, cuvars, egvars>>

extvars == <<extbase, auxvars>>

\* What the actions of one subsystem leave unchanged outside it.
chframe == <<corevars, tlsvars, s5vars, dpvars, rlvars, auxvars>>

tlsframe == <<corevars, chvars, s5vars, dpvars, rlvars, auxvars>>

s5frame == <<corevars, chvars, tlsvars, dpvars, rlvars, auxvars>>

dpframe == <<corevars, chvars, tlsvars, s5vars, rlvars, auxvars>>

rlframe == <<corevars, chvars, tlsvars, s5vars, dpvars, auxvars>>

cdframe == <<corevars, extbase, hivars, hellovars, cuvars, egvars>>

hiframe == <<corevars, extbase, cdvars, hellovars, cuvars, egvars>>

helloframe == <<corevars, extbase, cdvars, hivars, cuvars, egvars>>

\* What a call on the engine leaves unchanged: the receive-side history, the
\* window-update debounce and everything outside the engine.
egframe == <<elapsed, frames_out, h2_op, h2_ret, h2_steps, admitted,
             wu_received, data_received, open_data, wu_emitted, quiet, settled,
             regvars, retryvars, extbase, cdvars, preface_received, hi_chunk,
             hi_data, hi_ret, hellovars, cuvars>>

vars == <<h2vars, regvars, retryvars, extvars>>

(***************************************************************************)
(* Helpers.                                                                *)
(***************************************************************************)
\* The function f with key k bound to v (HashMap::insert).
MapInsert(f, k, v) == [x \in (DOMAIN f) \cup {k} |-> IF x = k THEN v ELSE f[x]]

\* The function f without key k (HashMap::remove).
MapRemove(f, k) == [x \in (DOMAIN f) \ {k} |-> f[x]]

EmptyMap == [x \in {} |-> 0]

\* All orders in which the elements of a finite set can be visited
\* (HashMap iteration order is unspecified).
Orders(S) == {f \in [1..Cardinality(S) -> S] : \A i, j \in 1..Cardinality(S) : f[i] = f[j] => i = j}

(***************************************************************************)
(* http2_advanced.rs: StreamState and FlowController.                      *)
(***************************************************************************)
\* StreamState::new
NewStreamState(initial_window) == [window_size |-> initial_window, bytes_sent |-> 0]

\* A consume_window that refuses a DATA size equal to the window.
StreamCanConsumeStrict(st, bytes) == st.window_size > bytes

\* StreamState::consume_window: the guard
StreamCanConsume(st, bytes) == st.window_size >= bytes

\* StreamState::consume_window: the stream after a successful consume
StreamConsumed(st, bytes) ==
    [st EXCEPT !.window_size = @ - bytes, !.bytes_sent = @ + bytes]

\* u32::saturating_add, exact below MaxWindow
SaturatingAdd(a, b) == a + b

\* StreamState::add_window
StreamAddWindow(st, bytes) == [st EXCEPT !.window_size = SaturatingAdd(@, bytes)]

\* StreamState::should_send_window_update
ShouldSendWindowUpdate(st) == st.window_size < WINDOW_UPDATE_THRESHOLD

\* FlowController::consume_window: the early return on the connection window
ConnectionCanConsume(conn, bytes) == ~(conn < bytes)

\* FlowController::consume_window: [ret, conn, streams] after the call
ConsumeWindow(conn, streams, stream_id, bytes) ==
    IF ~ConnectionCanConsume(conn, bytes)
    THEN [ret |-> FALSE, conn |-> conn, streams |-> streams]
    ELSE IF stream_id \in DOMAIN streams /\ StreamCanConsume(streams[stream_id], bytes)
         THEN [ret |-> TRUE,
               conn |-> conn - bytes,
               streams |-> [streams EXCEPT ![stream_id] = StreamConsumed(@, bytes)]]
         ELSE [ret |-> FALSE, conn |-> conn, streams |-> streams]

\* FlowController::update_window: [conn, streams] after the call
UpdateWindow(conn, streams, stream_id, increment) ==
    IF stream_id = 0
    THEN [conn |-> SaturatingAdd(conn, increment), streams |-> streams]
    ELSE IF stream_id \in DOMAIN streams
         THEN [conn |-> conn,
               streams |-> [streams EXCEPT ![stream_id] = StreamAddWindow(@, increment)]]
         ELSE [conn |-> conn, streams |-> streams]

\* FlowController::check_and_queue_updates: the update queued for the connection
ConnectionUpdate(conn) ==
    IF conn < WINDOW_UPDATE_THRESHOLD
    THEN <<  <<0, INITIAL_WINDOW_SIZE - conn>>  >>
    ELSE << >>

\* FlowController::check_and_queue_updates: the connection window afterwards
ConnectionAfterUpdate(conn) ==
    IF conn < WINDOW_UPDATE_THRESHOLD THEN INITIAL_WINDOW_SIZE ELSE conn

\* FlowController::check_and_queue_updates: the streams that get an update
StreamsToUpdate(streams) == {id \in DOMAIN streams : ShouldSendWindowUpdate(streams[id])}

\* An increment that refills the window up to the threshold only.
StreamIncrementToThreshold(st) == WINDOW_UPDATE_THRESHOLD - st.window_size

\* FlowController::check_and_queue_updates: the increment for one stream
StreamIncrement(st) == INITIAL_WINDOW_SIZE - st.window_size

\* FlowController::check_and_queue_updates: the streams afterwards
StreamsAfterUpdate(streams) ==
    [id \in DOMAIN streams |->
        IF ShouldSendWindowUpdate(streams[id])
        THEN StreamAddWindow(streams[id], StreamIncrement(streams[id]))
        ELSE streams[id]]

\* Sum of the increments of the frames in fs addressed to id.
RECURSIVE SumFor(_, _)
SumFor(fs, id) ==
    IF fs = << >> THEN 0
    ELSE (IF Head(fs)[1] = id THEN Head(fs)[2] ELSE 0) + SumFor(Tail(fs), id)

(***************************************************************************)
(* http2.rs: Http2Handler.                                                 *)
(***************************************************************************)
\* PriorityTree::ios_safari_defaults (Http2Handler::new_ios_safari)
IosSafariDefaults ==
    [id \in {3, 5, 7} |->
        [depends_on |-> 0,
         weight |-> IF id = 3 THEN 200 ELSE IF id = 5 THEN 100 ELSE 0,
         exclusive |-> FALSE]]

\* The record kept of an operation: its name, the stream id it names, its
\* byte count or increment and its END_STREAM flag (0, FALSE where absent).
Op(name, id, n, es) == [name |-> name, id |-> id, n |-> n, es |-> es]

ZeroHistory == [id \in FrameIds |-> 0]

\* Http2Handler::new_ios_safari
H2Init ==
    /\ connection_window = INITIAL_WINDOW_SIZE
    /\ fc_streams = EmptyMap
    /\ stream_states = EmptyMap
    /\ priority_tree = IosSafariDefaults
    /\ elapsed = FALSE
    /\ frames_out = << >>
    /\ h2_op = Op("new", 0, 0, FALSE)
    /\ h2_ret = "none"
    /\ h2_steps = 0
    /\ admitted = ZeroHistory
    /\ wu_received = ZeroHistory
    /\ data_received = ZeroHistory
    /\ open_data = ZeroHistory
    /\ wu_emitted = ZeroHistory
    /\ quiet = FALSE
    /\ settled = FALSE

\* One more operation fits in the run.
H2Step(op, ret) ==
    /\ h2_steps < MaxH2Steps
    /\ h2_steps' = h2_steps + 1
    /\ h2_op' = op
    /\ h2_ret' = ret
    /\ UNCHANGED <<regvars, retryvars, extvars>>

\* Http2Handler::can_send_data
CanSendData(stream_id, bytes) ==
    LET r == ConsumeWindow(connection_window, fc_streams, stream_id, bytes) IN
    /\ H2Step(Op("can_send_data", stream_id, bytes, FALSE),
              IF r.ret THEN "true" ELSE "false")
    /\ connection_window' = r.conn
    /\ fc_streams' = r.streams
    /\ admitted' = IF r.ret
                   THEN [id \in FrameIds |->
                            admitted[id]
                            + (IF id = 0 \/ id = stream_id THEN bytes ELSE 0)]
                   ELSE admitted
    /\ UNCHANGED <<stream_states, priority_tree, elapsed, frames_out,
                   wu_received, data_received, open_data, wu_emitted,
                   quiet, settled>>

\* Time passes: the debounce interval since last_update_time is over.
Tick ==
    /\ ~elapsed \/ ~quiet
    /\ elapsed' = TRUE
    /\ quiet' = TRUE
    /\ UNCHANGED <<connection_window, fc_streams, stream_states, priority_tree,
                   frames_out, h2_op, h2_ret, h2_steps, admitted, wu_received,
                   data_received, open_data, wu_emitted, settled,
                   regvars, retryvars, extvars>>

\* Http2Handler::check_and_send_window_updates
CheckAndSendWindowUpdates ==
    IF elapsed
    THEN \E order \in Orders(StreamsToUpdate(fc_streams)) :
          LET stream_updates == [i \in DOMAIN order |->
                                    <<order[i], StreamIncrement(fc_streams[order[i]])>>]
              frames == ConnectionUpdate(connection_window) \o stream_updates
          IN
          /\ H2Step(Op("check_and_send_window_updates", 0, 0, FALSE), "frames")
          /\ connection_window' = ConnectionAfterUpdate(connection_window)
          /\ fc_streams' = StreamsAfterUpdate(fc_streams)
          /\ frames_out' = frames
          /\ elapsed' = FALSE
          /\ wu_emitted' = [id \in FrameIds |-> wu_emitted[id] + SumFor(frames, id)]
          /\ settled' = quiet
          /\ UNCHANGED <<quiet, stream_states, priority_tree,
                         admitted, wu_received, data_received, open_data>>
    ELSE /\ H2Step(Op("check_and_send_window_updates", 0, 0, FALSE), "frames")
         /\ frames_out' = << >>
         /\ UNCHANGED <<connection_window, fc_streams, stream_states, priority_tree,
                        elapsed, admitted, wu_received, data_received, open_data,
                        wu_emitted, quiet, settled>>

(***************************************************************************)
(* http2.rs: reception of frames (process_frame and its handlers).         *)
(***************************************************************************)
\* A handle_data_frame that closes an Open stream on END_STREAM.
AfterDataEndStreamClosing(state) ==
    IF state = "Open" THEN "Closed"
    ELSE IF state = "HalfClosedLocal" THEN "Closed"
    ELSE state

\* Http2Handler::handle_data_frame: the stream state after END_STREAM
AfterDataEndStream(state) ==
    IF state = "Open" THEN "HalfClosedRemote"
    ELSE IF state = "HalfClosedLocal" THEN "Closed"
    ELSE state

\* Http2Handler::handle_data_frame
HandleDataFrame(stream_id, length, end_stream) ==
    LET w == UpdateWindow(connection_window, fc_streams, stream_id, length) IN
    /\ w.conn <= MaxWindow
    /\ \A id \in DOMAIN w.streams : w.streams[id].window_size <= MaxWindow
    /\ H2Step(Op("DATA", stream_id, length, end_stream), "Ok")
    /\ connection_window' = w.conn
    /\ fc_streams' = w.streams
    /\ stream_states' =
          IF end_stream /\ stream_id \in DOMAIN stream_states
          THEN [stream_states EXCEPT ![stream_id] = AfterDataEndStream(@)]
          ELSE stream_states
    /\ data_received' = [data_received EXCEPT ![stream_id] = @ + length]
    /\ open_data' = IF stream_id \in DOMAIN stream_states
                       /\ stream_states[stream_id] = "Open"
                    THEN [open_data EXCEPT ![stream_id] = @ + length]
                    ELSE open_data
    /\ quiet' = FALSE
    /\ settled' = FALSE
    /\ UNCHANGED <<priority_tree, elapsed, frames_out,
                   admitted, wu_received, wu_emitted>>

\* Http2Handler::handle_headers_frame (with Http2Handler::create_stream)
HandleHeadersFrame(stream_id, end_stream) ==
    LET known == stream_id \in DOMAIN stream_states
        created == IF known THEN stream_states
                   ELSE MapInsert(stream_states, stream_id, "Open")
    IN
    /\ H2Step(Op("HEADERS", stream_id, 0, end_stream), "Ok")
    /\ fc_streams' = IF known THEN fc_streams
                     ELSE MapInsert(fc_streams, stream_id,
                                    NewStreamState(INITIAL_WINDOW_SIZE))
    /\ stream_states' = IF end_stream
                        THEN [created EXCEPT ![stream_id] = "HalfClosedRemote"]
                        ELSE created
    /\ UNCHANGED <<connection_window, priority_tree, elapsed, frames_out,
                   admitted, wu_received, data_received, open_data,
                   wu_emitted, quiet, settled>>

\* Http2Handler::handle_rst_stream_frame
HandleRstStreamFrame(stream_id) ==
    /\ H2Step(Op("RST_STREAM", stream_id, 0, FALSE), "Ok")
    /\ stream_states' = IF stream_id \in DOMAIN stream_states
                        THEN [stream_states EXCEPT ![stream_id] = "Closed"]
                        ELSE stream_states
    /\ fc_streams' = MapRemove(fc_streams, stream_id)
    /\ UNCHANGED <<connection_window, priority_tree, elapsed, frames_out,
                   admitted, wu_received, data_received, open_data,
                   wu_emitted, quiet, settled>>

\* Payloads of received PRIORITY frames: the payload length and, when it
\* holds the 5 bytes, the decoded fields.
PriorityPayloads ==
    {[len |-> 5, depends_on |-> d, weight |-> 16, exclusive |-> e] :
        d \in {0}, e \in {TRUE}}
    \cup {[len |-> 0, depends_on |-> 0, weight |-> 0, exclusive |-> FALSE]}

\* Http2Handler::handle_priority_frame (with PriorityTree::update_priority)
HandlePriorityFrame(stream_id, payload) ==
    /\ H2Step(Op("PRIORITY", stream_id, 0, FALSE), "Ok")
    /\ priority_tree' =
          IF payload.len >= 5
          THEN MapInsert(priority_tree, stream_id,
                         [depends_on |-> payload.depends_on,
                          weight |-> payload.weight,
                          exclusive |-> payload.exclusive])
          ELSE priority_tree
    /\ UNCHANGED <<connection_window, fc_streams, stream_states, elapsed,
                   frames_out, admitted, wu_received, data_received, open_data,
                   wu_emitted, quiet, settled>>

\* Payloads of received WINDOW_UPDATE frames: the payload length and, when
\* it holds the 4 bytes, the increment (high bit masked).
WindowUpdatePayloads ==
    {[len |-> 4, increment |-> i] : i \in Increments}
    \cup {[len |-> 0, increment |-> 0]}

\* Http2Handler::handle_window_update_frame
HandleWindowUpdateFrame(stream_id, payload) ==
    LET w == IF payload.len >= 4
             THEN UpdateWindow(connection_window, fc_streams, stream_id,
                               payload.increment)
             ELSE [conn |-> connection_window, streams |-> fc_streams]
    IN
    /\ w.conn <= MaxWindow
    /\ \A id \in DOMAIN w.streams : w.streams[id].window_size <= MaxWindow
    /\ H2Step(Op("WINDOW_UPDATE", stream_id, payload.increment, FALSE), "Ok")
    /\ connection_window' = w.conn
    /\ fc_streams' = w.streams
    /\ wu_received' = [wu_received EXCEPT ![stream_id] = @ + payload.increment]
    /\ UNCHANGED <<stream_states, priority_tree, elapsed, frames_out,
                   admitted, data_received, open_data, wu_emitted,
                   quiet, settled>>

\* Http2Handler::handle_continuation_frame
HandleContinuationFrame(stream_id) ==
    /\ H2Step(Op("CONTINUATION", stream_id, 0, FALSE), "Ok")
    /\ UNCHANGED <<connection_window, fc_streams, stream_states, priority_tree,
                   elapsed, frames_out, admitted, wu_received, data_received, open_data,
                   wu_emitted, quiet, settled>>

\* Http2Handler::process_frame: dispatch on the frame type
ProcessFrame ==
    \/ \E id \in FrameIds, n \in DataLengths, es \in BOOLEAN : HandleDataFrame(id, n, es)
    \/ \E id \in FrameIds, es \in BOOLEAN : HandleHeadersFrame(id, es)
    \/ \E id \in FrameIds, p \in PriorityPayloads : HandlePriorityFrame(id, p)
    \/ \E id \in FrameIds : HandleRstStreamFrame(id)
    \/ \E id \in FrameIds, p \in WindowUpdatePayloads : HandleWindowUpdateFrame(id, p)
    \/ \E id \in FrameIds : HandleContinuationFrame(id)

H2Next ==
    \/ \E id \in FrameIds, n \in Sizes : CanSendData(id, n)
    \/ Tick
    \/ CheckAndSendWindowUpdates
    \/ ProcessFrame



(***************************************************************************)
(* graceful.rs, state.rs, proxy.rs, main.rs: the connection registry, the  *)
(* handler tasks with their relay loops, SIGINT and graceful shutdown.     *)
(***************************************************************************)
Tasks == 1..MaxTasks

RelayPcs == {"relay_top", "relay_select", "relay_write", "relay_mark"}

\* GracefulShutdown::new, ConnectionStateManager::new, and main before the
\* accept loop: no task spawned yet, the ctrl_c task waiting.
RegInit ==
    /\ is_shutting_down = FALSE
    /\ gs_connections = EmptyMap
    /\ sm_connections = {}
    /\ next_id = 1
    /\ task_pc = [t \in Tasks |-> "unspawned"]
    /\ task_id = [t \in Tasks |-> 0]
    /\ task_kind = [t \in Tasks |-> "none"]
    /\ relay_ret = [t \in Tasks |-> "none"]
    /\ task_result = [t \in Tasks |-> "none"]
    /\ sigint_pc = "waiting"
    /\ drain_pc = "idle"

\* ConnectionState::new
NewConnectionState == [is_closing |-> FALSE, idle |-> FALSE]

\* main: listener.accept() returns a connection and the handler is spawned.
\* The loop has no exit and does not look at the shutdown flag.
Accept(t) ==
    /\ task_pc[t] = "unspawned"
    /\ task_pc' = [task_pc EXCEPT ![t] = "spawned"]
    /\ UNCHANGED <<is_shutting_down, gs_connections, sm_connections, next_id,
                   task_id, task_kind, relay_ret, task_result, sigint_pc,
                   drain_pc, h2vars, retryvars, extvars>>

\* A create_connection that hands out next_id without advancing it.
CreateConnectionSameId(t) ==
    /\ task_pc[t] = "spawned"
    /\ task_id' = [task_id EXCEPT ![t] = next_id]
    /\ next_id' = next_id
    /\ sm_connections' = sm_connections \cup {next_id}
    /\ task_pc' = [task_pc EXCEPT ![t] = "created"]
    /\ UNCHANGED <<is_shutting_down, gs_connections, task_kind, relay_ret,
                   task_result, sigint_pc, drain_pc, h2vars, retryvars, extvars>>

\* handle_connection: ConnectionStateManager::create_connection (both locks
\* are held for the whole call)
CreateConnection(t) ==
    /\ task_pc[t] = "spawned"
    /\ task_id' = [task_id EXCEPT ![t] = next_id]
    /\ next_id' = next_id + 1
    /\ sm_connections' = sm_connections \cup {next_id}
    /\ task_pc' = [task_pc EXCEPT ![t] = "created"]
    /\ UNCHANGED <<is_shutting_down, gs_connections, task_kind, relay_ret,
                   task_result, sigint_pc, drain_pc, h2vars, retryvars, extvars>>

\* handle_connection: GracefulShutdown::register_connection
RegisterConnection(t) ==
    /\ task_pc[t] = "created"
    /\ gs_connections' = MapInsert(gs_connections, task_id[t], NewConnectionState)
    /\ task_pc' = [task_pc EXCEPT ![t] = "processing"]
    /\ UNCHANGED <<is_shutting_down, sm_connections, next_id, task_id, task_kind,
                   relay_ret, task_result, sigint_pc, drain_pc, h2vars, retryvars, extvars>>

\* process_connection returns before any relay loop runs: Ok on an empty
\* first read, Err on a failed read, dial, handshake or write.
ProcessReturnsEarly(t, result) ==
    /\ task_pc[t] = "processing"
    /\ task_result' = [task_result EXCEPT ![t] = result]
    /\ task_pc' = [task_pc EXCEPT ![t] = "finishing"]
    /\ UNCHANGED <<is_shutting_down, gs_connections, sm_connections, next_id,
                   task_id, task_kind, relay_ret, sigint_pc, drain_pc,
                   h2vars, retryvars, extvars>>

\* process_connection reaches proxy_bidirectional ("plain") or
\* proxy_http2_bidirectional ("h2").
EnterRelay(t, kind) ==
    /\ task_pc[t] = "processing"
    /\ task_kind' = [task_kind EXCEPT ![t] = kind]
    /\ task_pc' = [task_pc EXCEPT ![t] = "relay_top"]
    /\ UNCHANGED <<is_shutting_down, gs_connections, sm_connections, next_id,
                   task_id, relay_ret, task_result, sigint_pc, drain_pc,
                   h2vars, retryvars, extvars>>

\* The relay loop of task t returns ret, which process_connection returns.
RelayReturns(t, ret) ==
    /\ relay_ret' = [relay_ret EXCEPT ![t] = ret]
    /\ task_result' = [task_result EXCEPT ![t] = ret]
    /\ task_pc' = [task_pc EXCEPT ![t] = "finishing"]

\* What the loop does with a failed read, write or frame: proxy_bidirectional
\* logs and breaks, proxy_http2_bidirectional propagates it with `?`.
ResultOnIoError(kind) == IF kind = "plain" THEN "Ok" ELSE "Err"

\* proxy_bidirectional / proxy_http2_bidirectional: the head of the loop,
\* `if self.graceful_shutdown.is_shutting_down().await { break; }`
RelayTop(t) ==
    /\ task_pc[t] = "relay_top"
    /\ IF is_shutting_down
       THEN RelayReturns(t, "Ok")
       ELSE /\ task_pc' = [task_pc EXCEPT ![t] = "relay_select"]
            /\ UNCHANGED <<relay_ret, task_result>>
    /\ UNCHANGED <<is_shutting_down, gs_connections, sm_connections, next_id,
                   task_id, task_kind, sigint_pc, drain_pc, h2vars, retryvars, extvars>>

\* The select over the two reads completes: a peer has sent data, closed
\* its side, or its socket has failed. Until then the task stays suspended.
RelayRead(t, outcome) ==
    /\ task_pc[t] = "relay_select"
    /\ CASE outcome = "data" ->
              /\ task_pc' = [task_pc EXCEPT ![t] = "relay_write"]
              /\ UNCHANGED <<relay_ret, task_result>>
         [] outcome = "eof" -> RelayReturns(t, "Ok")
         [] outcome = "error" -> RelayReturns(t, ResultOnIoError(task_kind[t]))
    /\ UNCHANGED <<is_shutting_down, gs_connections, sm_connections, next_id,
                   task_id, task_kind, sigint_pc, drain_pc, h2vars, retryvars, extvars>>

\* The chunk is handled (frame engine on the h2 server side) and written to
\* the other peer, after the natural delay.
RelayWrite(t, ok) ==
    /\ task_pc[t] = "relay_write"
    /\ IF ok
       THEN /\ task_pc' = [task_pc EXCEPT ![t] = "relay_mark"]
            /\ UNCHANGED <<relay_ret, task_result>>
       ELSE RelayReturns(t, ResultOnIoError(task_kind[t]))
    /\ UNCHANGED <<is_shutting_down, gs_connections, sm_connections, next_id,
                   task_id, task_kind, sigint_pc, drain_pc, h2vars, retryvars, extvars>>

\* GracefulShutdown::mark_activity, at the end of a loop iteration
MarkActivity(t) ==
    /\ task_pc[t] = "relay_mark"
    /\ gs_connections' =
          IF task_id[t] \in DOMAIN gs_connections
          THEN [gs_connections EXCEPT ![task_id[t]].idle = FALSE]
          ELSE gs_connections
    /\ task_pc' = [task_pc EXCEPT ![t] = "relay_top"]
    /\ UNCHANGED <<is_shutting_down, sm_connections, next_id, task_id, task_kind,
                   relay_ret, task_result, sigint_pc, drain_pc, h2vars, retryvars, extvars>>

\* handle_connection: GracefulShutdown::unregister_connection
UnregisterConnection(t) ==
    /\ task_pc[t] = "finishing"
    /\ gs_connections' = MapRemove(gs_connections, task_id[t])
    /\ task_pc' = [task_pc EXCEPT ![t] = "unregistered"]
    /\ UNCHANGED <<is_shutting_down, sm_connections, next_id, task_id, task_kind,
                   relay_ret, task_result, sigint_pc, drain_pc, h2vars, retryvars, extvars>>

\* handle_connection: ConnectionStateManager::remove_connection, then return
RemoveConnection(t) ==
    /\ task_pc[t] = "unregistered"
    /\ sm_connections' = sm_connections \ {task_id[t]}
    /\ task_pc' = [task_pc EXCEPT ![t] = "done"]
    /\ UNCHANGED <<is_shutting_down, gs_connections, next_id, task_id, task_kind,
                   relay_ret, task_result, sigint_pc, drain_pc, h2vars, retryvars, extvars>>

\* The task ends inside process_connection without returning: a panic in
\* the handler or the cancellation of the task drops the future, and the
\* statements after the `.await` of process_connection never run.
Abort(t) ==
    /\ task_pc[t] \in {"processing"} \cup RelayPcs
    /\ task_pc' = [task_pc EXCEPT ![t] = "aborted"]
    /\ UNCHANGED <<is_shutting_down, gs_connections, sm_connections, next_id,
                   task_id, task_kind, relay_ret, task_result, sigint_pc,
                   drain_pc, h2vars, retryvars, extvars>>

\* No activity on the connection for longer than the idle timeout.
BecomeIdle(id) ==
    /\ id \in DOMAIN gs_connections
    /\ ~gs_connections[id].idle
    /\ gs_connections' = [gs_connections EXCEPT ![id].idle = TRUE]
    /\ cu_lapsed' = cu_lapsed \cup {id}
    /\ UNCHANGED <<is_shutting_down, sm_connections, next_id, task_pc, task_id,
                   task_kind, relay_ret, task_result, sigint_pc, drain_pc,
                   h2vars, retryvars, extbase, cdvars, hivars, hellovars,
                   egvars, cleanup_pc, to_remove, sm_stale>>

\* main: signal::ctrl_c() completes in the spawned task (SIGINT delivered).
SigintReceived ==
    /\ sigint_pc = "waiting"
    /\ sigint_pc' = "received"
    /\ UNCHANGED <<is_shutting_down, gs_connections, sm_connections, next_id,
                   task_pc, task_id, task_kind, relay_ret, task_result,
                   drain_pc, h2vars, retryvars, extvars>>

\* main: the Ok(()) arm of the match logs the message and the task ends.
SigintHandled ==
    /\ sigint_pc = "received"
    /\ sigint_pc' = "handled"
    /\ UNCHANGED <<is_shutting_down, gs_connections, sm_connections, next_id,
                   task_pc, task_id, task_kind, relay_ret, task_result,
                   drain_pc, h2vars, retryvars, extvars>>

HandlerStep(t) ==
    \/ CreateConnection(t)
    \/ RegisterConnection(t)
    \/ \E result \in {"Ok", "Err"} : ProcessReturnsEarly(t, result)
    \/ \E kind \in {"plain", "h2"} : EnterRelay(t, kind)
    \/ RelayTop(t)
    \/ RelayWrite(t, TRUE)
    \/ MarkActivity(t)
    \/ UnregisterConnection(t)
    \/ RemoveConnection(t)

\* The program as main wires it.
MainNext ==
    \/ \E t \in Tasks : Accept(t)
    \/ \E t \in Tasks : HandlerStep(t)
    \/ \E t \in Tasks, outcome \in {"data", "eof", "error"} : RelayRead(t, outcome)
    \/ \E t \in Tasks : RelayWrite(t, FALSE)
    \/ \E t \in Tasks : Abort(t)
    \/ \E id \in 1..MaxTasks : BecomeIdle(id)
    \/ SigintReceived
    \/ SigintHandled

\* GracefulShutdown::initiate_shutdown (no caller in main.rs; called here by
\* the embedding program)
InitiateShutdown ==
    /\ ~is_shutting_down
    /\ is_shutting_down' = TRUE
    /\ UNCHANGED <<gs_connections, sm_connections, next_id, task_pc, task_id,
                   task_kind, relay_ret, task_result, sigint_pc, drain_pc,
                   h2vars, retryvars, extvars>>

\* graceful_close_all: under the write lock, mark every connection closing
DrainMarkClosing ==
    /\ drain_pc = "idle"
    /\ gs_connections' = [id \in DOMAIN gs_connections |->
                             [gs_connections[id] EXCEPT !.is_closing = TRUE]]
    /\ drain_pc' = "polling"
    /\ UNCHANGED <<is_shutting_down, sm_connections, next_id, task_pc, task_id,
                   task_kind, relay_ret, task_result, sigint_pc, h2vars, retryvars, extvars>>

\* graceful_close_all: one round of the poll loop: read the length under the
\* read lock; break on 0, else sleep 100 ms
DrainPoll ==
    /\ drain_pc = "polling"
    /\ drain_pc' = IF Cardinality(DOMAIN gs_connections) = 0
                   THEN "empty_seen" ELSE "sleeping"
    /\ UNCHANGED <<is_shutting_down, gs_connections, sm_connections, next_id,
                   task_pc, task_id, task_kind, relay_ret, task_result,
                   sigint_pc, h2vars, retryvars, extvars>>

\* graceful_close_all: the 100 ms sleep is over
DrainWake ==
    /\ drain_pc = "sleeping"
    /\ drain_pc' = "polling"
    /\ UNCHANGED <<is_shutting_down, gs_connections, sm_connections, next_id,
                   task_pc, task_id, task_kind, relay_ret, task_result,
                   sigint_pc, h2vars, retryvars, extvars>>

\* graceful_close_all: the 30 s timeout fires while the poll loop is
\* suspended; the Err arm reads the length for the log message
DrainTimeout ==
    /\ drain_pc = "sleeping"
    /\ drain_pc' = "timed_out"
    /\ UNCHANGED <<is_shutting_down, gs_connections, sm_connections, next_id,
                   task_pc, task_id, task_kind, relay_ret, task_result,
                   sigint_pc, h2vars, retryvars, extvars>>

\* graceful_close_all: the Err arm clears the map under the write lock
DrainForceClear ==
    /\ drain_pc = "timed_out"
    /\ gs_connections' = EmptyMap
    /\ drain_pc' = "cleared"
    /\ UNCHANGED <<is_shutting_down, sm_connections, next_id, task_pc, task_id,
                   task_kind, relay_ret, task_result, sigint_pc, h2vars, retryvars, extvars>>

\* graceful_close_all returns Ok(()) from either arm
DrainReturn ==
    /\ drain_pc \in {"empty_seen", "cleared"}
    /\ drain_pc' = "returned"
    /\ UNCHANGED <<is_shutting_down, gs_connections, sm_connections, next_id,
                   task_pc, task_id, task_kind, relay_ret, task_result,
                   sigint_pc, h2vars, retryvars, extvars>>

DrainStep ==
    \/ DrainMarkClosing
    \/ DrainPoll
    \/ DrainWake
    \/ DrainForceClear
    \/ DrainReturn

\* The program together with a caller of the shutdown API.
ShutdownNext ==
    \/ \E t \in Tasks : Accept(t)
    \/ \E t \in Tasks : HandlerStep(t)
    \/ \E t \in Tasks, outcome \in {"data", "eof", "error"} : RelayRead(t, outcome)
    \/ \E t \in Tasks : RelayWrite(t, FALSE)
    \/ \E t \in Tasks : Abort(t)
    \/ SigintReceived
    \/ SigintHandled
    \/ InitiateShutdown
    \/ DrainStep
    \/ DrainTimeout

(***************************************************************************)
(* graceful.rs: ConnectionRecovery::retry_with_backoff.                    *)
(***************************************************************************)
\* Results of the retried operation: errors 1..NumErrors, values as
\* NumErrors+1..NumErrors+NumValues.
Errors == 1..NumErrors

Values == (NumErrors + 1)..(NumErrors + NumValues)

\* A backoff that doubles once more than the code does.
RetryDelayTwice(k) == RETRY_BACKOFF_MS * (2 ^ (k + 1))

\* retry_with_backoff: `self.backoff_ms * (2_u64.pow(attempt))`
RetryDelay(k) == RETRY_BACKOFF_MS * (2 ^ k)

\* retry_with_backoff: `attempt < self.max_retries - 1`
SleepsAfter(k) == k < MAX_RETRIES - 1

\* ConnectionRecovery::new and the entry of retry_with_backoff
RetryInit ==
    /\ retry_pc = "call"
    /\ attempt = 0
    /\ last_error = 0
    /\ retry_result = [kind |-> "none", value |-> 0]
    /\ retry_trace = << >>

\* The loop or the function is left: an Ok return, or the Err after the loop.
RetryLoopEnd(k, err) ==
    IF k < MAX_RETRIES
    THEN /\ retry_pc' = "call"
         /\ retry_result' = retry_result
    ELSE /\ retry_pc' = "returned"
         /\ retry_result' = [kind |-> "Err", value |-> err]

\* retry_with_backoff: `operation().await` returns Ok(result)
OperationSucceeds(v) ==
    /\ retry_pc = "call"
    /\ retry_trace' = Append(retry_trace, [ev |-> "call", ok |-> TRUE, value |-> v])
    /\ retry_pc' = "returned"
    /\ retry_result' = [kind |-> "Ok", value |-> v]
    /\ UNCHANGED <<attempt, last_error, h2vars, regvars, extvars>>

\* retry_with_backoff: `operation().await` returns Err(e)
OperationFails(e) ==
    /\ retry_pc = "call"
    /\ retry_trace' = Append(retry_trace, [ev |-> "call", ok |-> FALSE, value |-> e])
    /\ last_error' = e
    /\ IF SleepsAfter(attempt)
       THEN /\ retry_pc' = "sleep"
            /\ UNCHANGED <<attempt, retry_result>>
       ELSE /\ attempt' = attempt + 1
            /\ RetryLoopEnd(attempt + 1, e)
    /\ UNCHANGED <<h2vars, regvars, extvars>>

\* retry_with_backoff: `sleep(Duration::from_millis(delay)).await` is over
BackoffSleep ==
    /\ retry_pc = "sleep"
    /\ retry_trace' = Append(retry_trace,
                             [ev |-> "sleep", ok |-> TRUE, value |-> RetryDelay(attempt)])
    /\ attempt' = attempt + 1
    /\ RetryLoopEnd(attempt + 1, last_error)
    /\ UNCHANGED <<last_error, h2vars, regvars, extvars>>

RetryNext ==
    \/ \E v \in Values : OperationSucceeds(v)
    \/ \E e \in Errors : OperationFails(e)
    \/ BackoffSleep

(***************************************************************************)
(* challenge.rs: the redirect chains of ChallengeHandler.                  *)
(* URLs are numbers.  status_code and the timestamps of the entries are    *)
(* left out: no operation modelled here reads them.                        *)
(***************************************************************************)
\* URLs start_redirect_chain is called with.
StartedUrls == {0}

\* URLs add_redirect and finish_redirect_chain look a chain up with.
LookupUrls == {0, 1}

\* RedirectChain::new
NewRedirectChain(original_url) ==
    [original_url |-> original_url, redirects |-> << >>]

\* RedirectChain::redirect_count
RedirectCount(chain) == Len(chain.redirects)

\* RedirectChain::add_redirect
ChainAddRedirect(chain, from_url, to_url) ==
    [chain EXCEPT !.redirects =
        Append(@, [from_url |-> from_url, to_url |-> to_url])]

\* RedirectChain::has_loop: some to_url occurs twice among the entries
HasLoop(chain) ==
    \E i, j \in DOMAIN chain.redirects :
        i < j /\ chain.redirects[i].to_url = chain.redirects[j].to_url

\* RedirectChain::get_final_url, with the original URL for an empty chain
\* (the URL the next redirect response comes from)
FinalUrl(chain) ==
    IF chain.redirects = << >> THEN chain.original_url
    ELSE chain.redirects[Len(chain.redirects)].to_url

\* A limit check that lets one more entry in.
ChainFullAfter(chain) == RedirectCount(chain) > MAX_REDIRECTS

\* ChallengeHandler::add_redirect: `chain.redirect_count() >= MAX_REDIRECTS`
ChainFull(chain) == RedirectCount(chain) >= MAX_REDIRECTS

\* Target URLs offered to add_redirect for a chain: the URL the chain was
\* started at, the first target of the chain, and a URL that occurs nowhere
\* in the chain (entry k of a chain is one of 0, 1 and k, so length + 1 is
\* new).
TargetUrls(chain) ==
    {chain.original_url, 1, RedirectCount(chain) + 1}

ChOp(name, url, to_url) == [name |-> name, url |-> url, to_url |-> to_url]

\* ChallengeHandler::new
ChInit ==
    /\ redirect_chains = EmptyMap
    /\ ch_op = ChOp("new", 0, 0)
    /\ ch_ret = "none"

\* ChallengeHandler::start_redirect_chain
StartRedirectChain(original_url) ==
    /\ redirect_chains' = MapInsert(redirect_chains, original_url,
                                    NewRedirectChain(original_url))
    /\ ch_op' = ChOp("start_redirect_chain", original_url, 0)
    /\ ch_ret' = "none"
    /\ UNCHANGED chframe

\* ChallengeHandler::add_redirect
AddRedirect(original_url, to_url) ==
    /\ ch_op' = ChOp("add_redirect", original_url, to_url)
    /\ IF original_url \in DOMAIN redirect_chains
       THEN LET chain == redirect_chains[original_url]
                pushed == ChainAddRedirect(chain, FinalUrl(chain), to_url)
            IN  IF ChainFull(chain)
                THEN /\ ch_ret' = "TooManyRedirects"
                     /\ UNCHANGED redirect_chains
                ELSE /\ redirect_chains' =
                            [redirect_chains EXCEPT ![original_url] = pushed]
                     /\ ch_ret' = IF HasLoop(pushed) THEN "RedirectLoop" ELSE "Ok"
       ELSE /\ ch_ret' = "NoChain"
            /\ UNCHANGED redirect_chains
    /\ UNCHANGED chframe

\* ChallengeHandler::finish_redirect_chain
FinishRedirectChain(original_url) ==
    /\ redirect_chains' = MapRemove(redirect_chains, original_url)
    /\ ch_op' = ChOp("finish_redirect_chain", original_url, 0)
    /\ ch_ret' = IF /\ original_url \in DOMAIN redirect_chains
                    /\ redirect_chains[original_url].redirects # << >>
                 THEN "Some" ELSE "None"
    /\ UNCHANGED chframe

ChallengeNext ==
    \/ \E u \in StartedUrls : StartRedirectChain(u)
    \/ \E u \in LookupUrls :
          \E to_url \in (IF u \in DOMAIN redirect_chains
                         THEN TargetUrls(redirect_chains[u]) ELSE {1}) :
              AddRedirect(u, to_url)
    \/ \E u \in LookupUrls : FinishRedirectChain(u)

(***************************************************************************)
(* tls.rs: SessionTicketCache.  Time is in seconds since the epoch and     *)
(* only advances.  clear() has no caller and is not modelled.              *)
(***************************************************************************)
\* Domains tickets are stored and looked up for.
Domains == {"a", "b"}

\* Ticket contents; 0 stands for None in the result of get.
Tickets == {1, 2}

\* Amounts by which the clock advances between two calls.
ClockDeltas == {1, SESSION_TICKET_LIFETIME}

\* SessionTicket::new, at time t
NewSessionTicket(ticket, t) == [ticket |-> ticket, timestamp |-> t]

\* An expiry test that already expires a ticket at the age of 7200 s.
IsExpiredAtLifetime(st, t) == t - st.timestamp >= SESSION_TICKET_LIFETIME

\* SessionTicket::is_expired, at time t
IsExpired(st, t) == t - st.timestamp > SESSION_TICKET_LIFETIME

TlsOp(name, domain, ticket) == [name |-> name, domain |-> domain, ticket |-> ticket]

\* SessionTicketCache::new
TlsInit ==
    /\ tickets = EmptyMap
    /\ now = 0
    /\ clock_steps = 0
    /\ tls_op = TlsOp("new", "", 0)
    /\ tls_ret = 0
    /\ last_store = EmptyMap

\* SessionTicketCache::store
Store(domain, ticket) ==
    /\ tickets' = MapInsert(tickets, domain, NewSessionTicket(ticket, now))
    /\ last_store' = MapInsert(last_store, domain, [ticket |-> ticket, at |-> now])
    /\ tls_op' = TlsOp("store", domain, ticket)
    /\ tls_ret' = 0
    /\ UNCHANGED <<now, clock_steps, tlsframe>>

\* SessionTicketCache::get
Get(domain) ==
    /\ tls_op' = TlsOp("get", domain, 0)
    /\ tls_ret' = IF domain \in DOMAIN tickets /\ ~IsExpired(tickets[domain], now)
                  THEN tickets[domain].ticket
                  ELSE 0
    /\ UNCHANGED <<tickets, last_store, now, clock_steps, tlsframe>>

\* SessionTicketCache::cleanup_expired
CleanupExpired ==
    /\ tickets' = [d \in {e \in DOMAIN tickets : ~IsExpired(tickets[e], now)}
                     |-> tickets[d]]
    /\ tls_op' = TlsOp("cleanup_expired", "", 0)
    /\ tls_ret' = 0
    /\ UNCHANGED <<last_store, now, clock_steps, tlsframe>>

\* SystemTime::now() has advanced.
ClockAdvance(delta) ==
    /\ clock_steps < MaxClockSteps
    /\ clock_steps' = clock_steps + 1
    /\ now' = now + delta
    /\ UNCHANGED <<tickets, last_store, tls_op, tls_ret, tlsframe>>

TlsNext ==
    \/ \E d \in Domains, t \in Tickets : Store(d, t)
    \/ \E d \in Domains : Get(d)
    \/ CleanupExpired
    \/ \E delta \in ClockDeltas : ClockAdvance(delta)

(***************************************************************************)
(* socks5.rs: Socks5Connector::connect against a SOCKS5 server.  The       *)
(* server answers each message of the connector with a reply of its        *)
(* choice, may send tunnel data after its CONNECT reply, and may close.    *)
(***************************************************************************)
SOCKS5_VERSION == 5

SOCKS5_AUTH_NONE == 0

SOCKS5_AUTH_PASSWORD == 2

SOCKS5_ATYP_IPV4 == 1

SOCKS5_ATYP_DOMAIN == 3

SOCKS5_ATYP_IPV6 == 4

SOCKS5_REP_SUCCESS == 0

\* Version bytes the server puts in its replies.
ReplyVersions == {5, 4}

\* Methods the server selects (255 = no acceptable method).
ReplyMethods == {0, 2, 255}

\* Version and status bytes of the server's sub-negotiation reply.
AuthVersions == {1, 5}

AuthStatuses == {0, 1}

\* Reply codes, address types and domain lengths of the CONNECT reply.
ReplyCodes == {0, 1}

ReplyAtyps == {1, 2, 3, 4}

DomainLens == {0, 2}

\* The first byte the server sends through the tunnel.
TunnelByte == 170

\* n bytes of an address or port
Fill(n) == [i \in 1..n |-> 7]

\* The CONNECT reply on the wire (RFC 1928): the 4-byte head, then the bound
\* address in the form its type announces, then the port.  A reply with an
\* address type the connector does not know carries a 4-byte address.
ConnectReplyBytes(ver, rep, atyp, dlen) ==
    <<ver, rep, 0, atyp>>
    \o (IF atyp = SOCKS5_ATYP_IPV6 THEN Fill(16)
        ELSE IF atyp = SOCKS5_ATYP_DOMAIN THEN <<dlen>> \o Fill(dlen)
        ELSE Fill(4))
    \o Fill(2)

\* A skip that leaves the port of an IPv4 bound address unread.
SkipBytesNoPort(atyp, len_byte) ==
    IF atyp = SOCKS5_ATYP_IPV4 THEN 4
    ELSE IF atyp = SOCKS5_ATYP_IPV6 THEN 16 + 2
    ELSE len_byte + 2

\* send_connect_request: `skip_bytes`, len_byte being the byte read for a
\* domain
SkipBytes(atyp, len_byte) ==
    IF atyp = SOCKS5_ATYP_IPV4 THEN 4 + 2
    ELSE IF atyp = SOCKS5_ATYP_IPV6 THEN 16 + 2
    ELSE len_byte + 2

\* handshake: the methods offered in the greeting
OfferedMethods(creds) ==
    IF creds THEN <<SOCKS5_AUTH_NONE, SOCKS5_AUTH_PASSWORD>> ELSE <<SOCKS5_AUTH_NONE>>

NoReply == [ver |-> -1, rep |-> -1, atyp |-> -1]

\* No connector yet.
S5Init ==
    /\ s5_pc = "new"
    /\ s5_creds = FALSE
    /\ s5_tx = << >>
    /\ s5_rx = << >>
    /\ s5_served = 0
    /\ s5_eof = FALSE
    /\ s5_method = -1
    /\ s5_auth = << >>
    /\ s5_reply = NoReply
    /\ s5_skip = 0
    /\ s5_result = "none"
    /\ s5_tunnel_sent = 0
    /\ s5_dialed = FALSE

\* connect / handshake / ...: the call returns Err
S5Fail ==
    /\ s5_pc' = "done"
    /\ s5_result' = "Err"

\* stream.read_exact of n bytes can complete
CanRead(n) == Len(s5_rx) >= n

\* stream.read_exact of n bytes fails: the server closed before sending them
ReadFails(n) == s5_eof /\ Len(s5_rx) < n

\* the stream after read_exact of n bytes
AfterRead(n) == SubSeq(s5_rx, n + 1, Len(s5_rx))

\* Socks5Connector::new with or without credentials; connect is entered.
S5New(creds) ==
    /\ s5_pc = "new"
    /\ s5_pc' = "dial"
    /\ s5_creds' = creds
    /\ UNCHANGED <<s5_tx, s5_rx, s5_served, s5_eof, s5_method, s5_auth, s5_reply,
                   s5_skip, s5_result, s5_tunnel_sent, s5_dialed, s5frame>>

\* connect: TcpStream::connect(&proxy_addr)
S5Dial(ok) ==
    /\ s5_pc = "dial"
    /\ s5_dialed' = ok
    /\ IF ok THEN s5_pc' = "greet" /\ UNCHANGED s5_result ELSE S5Fail
    /\ UNCHANGED <<s5_creds, s5_tx, s5_rx, s5_served, s5_eof, s5_method, s5_auth,
                   s5_reply, s5_skip, s5_tunnel_sent, s5frame>>

\* handshake: the greeting is written
S5SendGreeting(ok) ==
    /\ s5_pc = "greet"
    /\ IF ok
       THEN /\ s5_tx' = Append(s5_tx, [msg |-> "greeting",
                                       methods |-> OfferedMethods(s5_creds)])
            /\ s5_pc' = "read_method"
            /\ UNCHANGED s5_result
       ELSE S5Fail /\ UNCHANGED s5_tx
    /\ UNCHANGED <<s5_creds, s5_rx, s5_served, s5_eof, s5_method, s5_auth,
                   s5_reply, s5_skip, s5_tunnel_sent, s5_dialed, s5frame>>

\* handshake: the 2-byte method selection is read and checked
S5ReadMethod ==
    /\ s5_pc = "read_method"
    /\ \/ /\ CanRead(2)
          /\ s5_rx' = AfterRead(2)
          /\ IF s5_rx[1] # SOCKS5_VERSION \/ s5_rx[2] = 255
             THEN S5Fail /\ UNCHANGED s5_method
             ELSE /\ s5_method' = s5_rx[2]
                  /\ s5_pc' = "authenticate"
                  /\ UNCHANGED s5_result
       \/ /\ ReadFails(2)
          /\ S5Fail
          /\ UNCHANGED <<s5_rx, s5_method>>
    /\ UNCHANGED <<s5_creds, s5_tx, s5_served, s5_eof, s5_auth,
                   s5_reply, s5_skip, s5_tunnel_sent, s5_dialed, s5frame>>

\* authenticate: with credentials the sub-negotiation request is written
S5Authenticate(ok) ==
    /\ s5_pc = "authenticate"
    /\ IF s5_creds
       THEN IF ok
            THEN /\ s5_tx' = Append(s5_tx, [msg |-> "auth", methods |-> << >>])
                 /\ s5_pc' = "read_auth"
                 /\ UNCHANGED s5_result
            ELSE S5Fail /\ UNCHANGED s5_tx
       ELSE /\ s5_pc' = "send_connect"
            /\ UNCHANGED <<s5_tx, s5_result>>
    /\ UNCHANGED <<s5_creds, s5_rx, s5_served, s5_eof, s5_method, s5_auth,
                   s5_reply, s5_skip, s5_tunnel_sent, s5_dialed, s5frame>>

\* authenticate: the 2-byte reply is read; only its status byte is checked
S5ReadAuth ==
    /\ s5_pc = "read_auth"
    /\ \/ /\ CanRead(2)
          /\ s5_rx' = AfterRead(2)
          /\ s5_auth' = SubSeq(s5_rx, 1, 2)
          /\ IF s5_rx[2] # 0
             THEN S5Fail
             ELSE s5_pc' = "send_connect" /\ UNCHANGED s5_result
       \/ /\ ReadFails(2)
          /\ S5Fail
          /\ UNCHANGED <<s5_rx, s5_auth>>
    /\ UNCHANGED <<s5_creds, s5_tx, s5_served, s5_eof, s5_method,
                   s5_reply, s5_skip, s5_tunnel_sent, s5_dialed, s5frame>>

\* send_connect_request: the CONNECT request is written
S5SendConnect(ok) ==
    /\ s5_pc = "send_connect"
    /\ IF ok
       THEN /\ s5_tx' = Append(s5_tx, [msg |-> "connect", methods |-> << >>])
            /\ s5_pc' = "read_reply"
            /\ UNCHANGED s5_result
       ELSE S5Fail /\ UNCHANGED s5_tx
    /\ UNCHANGED <<s5_creds, s5_rx, s5_served, s5_eof, s5_method, s5_auth,
                   s5_reply, s5_skip, s5_tunnel_sent, s5_dialed, s5frame>>

\* send_connect_request: the 4-byte head of the reply is read and checked
S5ReadReply ==
    /\ s5_pc = "read_reply"
    /\ \/ /\ CanRead(4)
          /\ s5_rx' = AfterRead(4)
          /\ s5_reply' = [ver |-> s5_rx[1], rep |-> s5_rx[2], atyp |-> s5_rx[4]]
          /\ IF s5_rx[1] # SOCKS5_VERSION \/ s5_rx[2] # SOCKS5_REP_SUCCESS
             THEN S5Fail /\ UNCHANGED s5_skip
             ELSE IF s5_rx[4] \in {SOCKS5_ATYP_IPV4, SOCKS5_ATYP_IPV6}
             THEN /\ s5_skip' = SkipBytes(s5_rx[4], 0)
                  /\ s5_pc' = "read_bound"
                  /\ UNCHANGED s5_result
             ELSE IF s5_rx[4] = SOCKS5_ATYP_DOMAIN
             THEN /\ s5_pc' = "read_len"
                  /\ UNCHANGED <<s5_skip, s5_result>>
             ELSE S5Fail /\ UNCHANGED s5_skip
       \/ /\ ReadFails(4)
          /\ S5Fail
          /\ UNCHANGED <<s5_rx, s5_reply, s5_skip>>
    /\ UNCHANGED <<s5_creds, s5_tx, s5_served, s5_eof, s5_method, s5_auth,
                   s5_tunnel_sent, s5_dialed, s5frame>>

\* send_connect_request: the length byte of a bound domain is read
S5ReadLen ==
    /\ s5_pc = "read_len"
    /\ \/ /\ CanRead(1)
          /\ s5_rx' = AfterRead(1)
          /\ s5_skip' = SkipBytes(SOCKS5_ATYP_DOMAIN, s5_rx[1])
          /\ s5_pc' = "read_bound"
          /\ UNCHANGED s5_result
       \/ /\ ReadFails(1)
          /\ S5Fail
          /\ UNCHANGED <<s5_rx, s5_skip>>
    /\ UNCHANGED <<s5_creds, s5_tx, s5_served, s5_eof, s5_method, s5_auth,
                   s5_reply, s5_tunnel_sent, s5_dialed, s5frame>>

\* send_connect_request: the bound address is skipped; connect returns Ok
S5ReadBound ==
    /\ s5_pc = "read_bound"
    /\ \/ /\ CanRead(s5_skip)
          /\ s5_rx' = AfterRead(s5_skip)
          /\ s5_pc' = "done"
          /\ s5_result' = "Ok"
       \/ /\ ReadFails(s5_skip)
          /\ S5Fail
          /\ UNCHANGED s5_rx
    /\ UNCHANGED <<s5_creds, s5_tx, s5_served, s5_eof, s5_method, s5_auth,
                   s5_reply, s5_skip, s5_tunnel_sent, s5_dialed, s5frame>>

\* The server sends bytes in answer to the next message of the connector.
ServerAnswers(msg, bytes) ==
    /\ ~s5_eof
    /\ s5_served < Len(s5_tx)
    /\ s5_tx[s5_served + 1].msg = msg
    /\ s5_served' = s5_served + 1
    /\ s5_rx' = s5_rx \o bytes
    /\ UNCHANGED <<s5_pc, s5_creds, s5_tx, s5_eof, s5_method, s5_auth, s5_reply,
                   s5_skip, s5_result, s5_tunnel_sent, s5_dialed, s5frame>>

ServerSelectsMethod(ver, method) == ServerAnswers("greeting", <<ver, method>>)

ServerAuthReply(ver, status) == ServerAnswers("auth", <<ver, status>>)

ServerConnectReply(ver, rep, atyp, dlen) ==
    ServerAnswers("connect", ConnectReplyBytes(ver, rep, atyp, dlen))

\* The server starts to send tunnel data right after its CONNECT reply.
ServerSendsTunnelData ==
    /\ ~s5_eof
    /\ s5_served = Len(s5_tx)
    /\ s5_served > 0
    /\ s5_tx[s5_served].msg = "connect"
    /\ s5_tunnel_sent = 0
    /\ s5_tunnel_sent' = 1
    /\ s5_rx' = Append(s5_rx, TunnelByte)
    /\ UNCHANGED <<s5_pc, s5_creds, s5_tx, s5_served, s5_eof, s5_method, s5_auth,
                   s5_reply, s5_skip, s5_result, s5_dialed, s5frame>>

\* The server closes the connection.
ServerCloses ==
    /\ ~s5_eof
    /\ s5_pc # "done"
    /\ s5_eof' = TRUE
    /\ UNCHANGED <<s5_pc, s5_creds, s5_tx, s5_rx, s5_served, s5_method, s5_auth,
                   s5_reply, s5_skip, s5_result, s5_tunnel_sent,
                   s5_dialed, s5frame>>

Socks5Next ==
    \/ \E creds \in BOOLEAN : S5New(creds)
    \/ \E ok \in BOOLEAN : S5Dial(ok)
    \/ \E ok \in BOOLEAN : S5SendGreeting(ok)
    \/ S5ReadMethod
    \/ \E ok \in BOOLEAN : S5Authenticate(ok)
    \/ S5ReadAuth
    \/ \E ok \in BOOLEAN : S5SendConnect(ok)
    \/ S5ReadReply
    \/ S5ReadLen
    \/ S5ReadBound
    \/ \E ver \in ReplyVersions, method \in ReplyMethods : ServerSelectsMethod(ver, method)
    \/ \E ver \in AuthVersions, status \in AuthStatuses : ServerAuthReply(ver, status)
    \/ \E ver \in ReplyVersions, rep \in ReplyCodes, atyp \in ReplyAtyps, dlen \in DomainLens :
          ServerConnectReply(ver, rep, atyp, dlen)
    \/ ServerSendsTunnelData
    \/ ServerCloses

(***************************************************************************)
(* proxy.rs: the CONNECT path (handle_connect_method) and the opaque path  *)
(* (handle_tcp_passthrough) up to the entry of the relay, with the dial of *)
(* the upstream: connect_to_target, connect_to_upstream, and               *)
(* HttpsProxyConnector::connect of socks5.rs.                              *)
(***************************************************************************)
\* proxy_settings.proxy_type
ProxyTypes == {"direct", "socks5", "http", "https"}

\* The paths of process_connection modelled here.
Paths == {"connect", "opaque"}

\* The dial goes through ConnectionRecovery::retry_with_backoff:
\* connect_to_upstream always, connect_to_target in direct mode only.
UsesRetry == dp_path = "opaque" \/ dp_proxy_type = "direct"

\* The dial goes through Socks5Connector::connect.
UsesSocks5 == dp_path = "connect" /\ dp_proxy_type = "socks5"

\* The dial goes through HttpsProxyConnector::connect.
UsesHttpConnector == dp_path = "connect" /\ dp_proxy_type \in {"http", "https"}

\* ProxyHandler::new; no connection is being processed.
DpInit ==
    /\ dp_pc = "start"
    /\ dp_path = "none"
    /\ dp_proxy_type = "none"
    /\ dp_dial = "none"
    /\ dp_client_out = << >>
    /\ dp_upstream_out = << >>
    /\ dp_result = "none"
    /\ http_pc = "dial"
    /\ http_dialed = FALSE
    /\ http_result = "none"

\* The handler returns Err (`?`).
DpFail ==
    /\ dp_pc' = "done"
    /\ dp_result' = "Err"

\* process_connection: the first bytes select the path.
Dispatch(path, proxy_type) ==
    /\ dp_pc = "start"
    /\ dp_path' = path
    /\ dp_proxy_type' = proxy_type
    /\ dp_pc' = IF path = "connect" THEN "extract" ELSE "dial"
    /\ UNCHANGED <<dp_dial, dp_client_out, dp_upstream_out, dp_result,
                   http_pc, http_dialed, http_result, dpframe>>

\* handle_connect_method: `self.extract_connect_target(&request)?`
ExtractConnectTarget(ok) ==
    /\ dp_pc = "extract"
    /\ IF ok THEN dp_pc' = "dial" /\ UNCHANGED dp_result ELSE DpFail
    /\ UNCHANGED <<dp_path, dp_proxy_type, dp_dial, dp_client_out, dp_upstream_out,
                   http_pc, http_dialed, http_result, dpframe>>

\* HttpsProxyConnector::connect: TcpStream::connect(&proxy_addr)
HttpDial(ok) ==
    /\ dp_pc = "dial"
    /\ UsesHttpConnector
    /\ http_pc = "dial"
    /\ http_dialed' = ok
    /\ IF ok
       THEN http_pc' = "handshake" /\ UNCHANGED http_result
       ELSE http_pc' = "done" /\ http_result' = "Err"
    /\ UNCHANGED <<dp_pc, dp_path, dp_proxy_type, dp_dial, dp_client_out,
                   dp_upstream_out, dp_result, dpframe>>

\* HttpsProxyConnector::connect: the CONNECT request is written and the
\* response head is read; success is a head that holds "200" or
\* "Connection established".
HttpHandshake(ok) ==
    /\ dp_pc = "dial"
    /\ UsesHttpConnector
    /\ http_pc = "handshake"
    /\ http_pc' = "done"
    /\ http_result' = IF ok THEN "Ok" ELSE "Err"
    /\ UNCHANGED <<dp_pc, dp_path, dp_proxy_type, dp_dial, dp_client_out,
                   dp_upstream_out, dp_result, http_dialed, dpframe>>

\* The dial has returned, with this result.
DialResult ==
    IF UsesRetry
    THEN IF retry_pc = "returned" THEN retry_result.kind ELSE "none"
    ELSE IF UsesSocks5
    THEN IF s5_pc = "done" THEN s5_result ELSE "none"
    ELSE IF http_pc = "done" THEN http_result ELSE "none"

\* A handler that goes on to its reply whatever the dial returned.
AfterDialAlways(result) ==
    IF dp_path = "connect" THEN "write_established" ELSE "tcp_options"

\* The position after `connect_to_target(..).await?` or
\* `connect_to_upstream().await?`
AfterDial(result) ==
    IF result = "Err" THEN "done"
    ELSE IF dp_path = "connect" THEN "write_established" ELSE "tcp_options"

\* handle_connect_method / handle_tcp_passthrough: the dial returns
DialReturns ==
    /\ dp_pc = "dial"
    /\ DialResult # "none"
    /\ dp_dial' = DialResult
    /\ dp_pc' = AfterDial(DialResult)
    /\ dp_result' = IF AfterDial(DialResult) = "done" THEN "Err" ELSE dp_result
    /\ UNCHANGED <<dp_path, dp_proxy_type, dp_client_out, dp_upstream_out,
                   http_pc, http_dialed, http_result, dpframe>>

\* handle_tcp_passthrough: `apply_tcp_options(&server_stream, false)?`
\* (handle_connect_method only logs a failure and is not stopped by it)
TcpOptions(ok) ==
    /\ dp_pc = "tcp_options"
    /\ IF ok THEN dp_pc' = "write_initial" /\ UNCHANGED dp_result ELSE DpFail
    /\ UNCHANGED <<dp_path, dp_proxy_type, dp_dial, dp_client_out, dp_upstream_out,
                   http_pc, http_dialed, http_result, dpframe>>

\* handle_tcp_passthrough: `server_stream.write_all(initial_data).await?`
WriteInitial(ok) ==
    /\ dp_pc = "write_initial"
    /\ IF ok
       THEN /\ dp_upstream_out' = Append(dp_upstream_out, "initial")
            /\ dp_pc' = "relay"
            /\ UNCHANGED dp_result
       ELSE DpFail /\ UNCHANGED dp_upstream_out
    /\ UNCHANGED <<dp_path, dp_proxy_type, dp_dial, dp_client_out,
                   http_pc, http_dialed, http_result, dpframe>>

\* handle_connect_method: `client_stream.write_all(response).await?`
WriteEstablished(ok) ==
    /\ dp_pc = "write_established"
    /\ IF ok
       THEN /\ dp_client_out' = Append(dp_client_out, "200")
            /\ dp_pc' = "read_first"
            /\ UNCHANGED dp_result
       ELSE DpFail /\ UNCHANGED dp_client_out
    /\ UNCHANGED <<dp_path, dp_proxy_type, dp_dial, dp_upstream_out,
                   http_pc, http_dialed, http_result, dpframe>>

\* handle_connect_method: `client_stream.read(&mut first_packet).await?`
ReadFirst(outcome) ==
    /\ dp_pc = "read_first"
    /\ IF outcome = "data" THEN dp_pc' = "forward_first" /\ UNCHANGED dp_result
       ELSE IF outcome = "eof" THEN dp_pc' = "done" /\ dp_result' = "Ok"
       ELSE DpFail
    /\ UNCHANGED <<dp_path, dp_proxy_type, dp_dial, dp_client_out, dp_upstream_out,
                   http_pc, http_dialed, http_result, dpframe>>

\* handle_connect_method: the first chunk, rewritten or not, is written
\* upstream (`server_stream.write_all(..).await?`)
ForwardFirst(ok) ==
    /\ dp_pc = "forward_first"
    /\ IF ok
       THEN /\ dp_upstream_out' = Append(dp_upstream_out, "first")
            /\ dp_pc' = "relay"
            /\ UNCHANGED dp_result
       ELSE DpFail /\ UNCHANGED dp_upstream_out
    /\ UNCHANGED <<dp_path, dp_proxy_type, dp_dial, dp_client_out,
                   http_pc, http_dialed, http_result, dpframe>>

\* The dial in progress: retry_with_backoff around TcpStream::connect, or
\* one of the two connectors.
DialStep ==
    /\ dp_pc = "dial"
    /\ \/ UsesRetry /\ RetryNext
       \/ UsesSocks5 /\ Socks5Next
       \/ \E ok \in BOOLEAN : HttpDial(ok)
       \/ \E ok \in BOOLEAN : HttpHandshake(ok)

DispatchNext ==
    \/ \E path \in Paths, proxy_type \in ProxyTypes : Dispatch(path, proxy_type)
    \/ \E ok \in BOOLEAN : ExtractConnectTarget(ok)
    \/ DialStep
    \/ DialReturns
    \/ \E ok \in BOOLEAN : TcpOptions(ok)
    \/ \E ok \in BOOLEAN : WriteInitial(ok)
    \/ \E ok \in BOOLEAN : WriteEstablished(ok)
    \/ \E outcome \in {"data", "eof", "error"} : ReadFirst(outcome)
    \/ \E ok \in BOOLEAN : ForwardFirst(ok)

\* TCP dials of the upstream endpoint attempted so far.
DialAttempts ==
    IF UsesRetry THEN Len(SelectSeq(retry_trace, LAMBDA e : e.ev = "call"))
    ELSE IF UsesSocks5 THEN (IF s5_pc \in {"new", "dial"} THEN 0 ELSE 1)
    ELSE (IF http_pc = "dial" THEN 0 ELSE 1)

\* The dial returned Err because the TCP dial failed (and not the proxy
\* handshake after it).
TcpDialFailed ==
    /\ dp_dial = "Err"
    /\ IF UsesRetry THEN TRUE
       ELSE IF UsesSocks5 THEN ~s5_dialed
       ELSE ~http_dialed

(***************************************************************************)
(* proxy.rs: the data path of one relay loop (proxy_bidirectional and      *)
(* proxy_http2_bidirectional).  A chunk is what one read returns, named by *)
(* the side it was read from and its rank there.  What the HTTP/2 engine   *)
(* makes the loop write to the server is an item of kind "response_frames" *)
(* or "window_update".                                                     *)
(***************************************************************************)
Sides == {"client", "server"}

\* The k-th chunk a side sends.
Chunk(side, k) == [kind |-> "chunk", from |-> side, seq |-> k]

\* Bytes produced by the engine: the result of handle_incoming_frame, or one
\* frame of check_and_send_window_updates.
Injected(kind) == [kind |-> kind, from |-> "engine", seq |-> 0]

\* A relay that writes a chunk back to the peer it was read from.
WriteTargetEcho(source) == source

\* The peer a chunk read from `source` is written to.
WriteTarget(source) == IF source = "client" THEN "server" ELSE "client"

\* The loop has not been entered.
PumpInit ==
    /\ rl_kind = "none"
    /\ rl_pc = "new"
    /\ rl_read = [s \in Sides |-> << >>]
    /\ rl_written = [s \in Sides |-> << >>]
    /\ rl_source = "none"
    /\ rl_pending = << >>
    /\ rl_zero = FALSE
    /\ rl_cut = {}
    /\ rl_short = {}
    /\ rl_ret = "none"

\* proxy_bidirectional or proxy_http2_bidirectional is entered.
PumpEnter(kind) ==
    /\ rl_pc = "new"
    /\ rl_kind' = kind
    /\ rl_pc' = "top"
    /\ UNCHANGED <<rl_read, rl_written, rl_source, rl_pending, rl_zero, rl_cut, rl_short, rl_ret, rlframe>>

\* The loop is left with this result.
PumpReturns(ret) ==
    /\ rl_pc' = "done"
    /\ rl_ret' = ret

\* What an I/O or frame error does: proxy_bidirectional logs and breaks,
\* proxy_http2_bidirectional returns the error (`?`).
PumpOnError == PumpReturns(IF rl_kind = "h2" THEN "Err" ELSE "Ok")

\* The shutdown check at the head of an iteration.
PumpTop ==
    /\ rl_pc = "top"
    /\ IF is_shutting_down
       THEN PumpReturns("Ok")
       ELSE rl_pc' = "select" /\ UNCHANGED rl_ret
    /\ UNCHANGED <<rl_kind, rl_read, rl_written, rl_source, rl_pending, rl_zero, rl_cut, rl_short, rlframe>>

\* tokio::select!: the read of one side completes with a chunk.  A read
\* returns the bytes that have arrived: a chunk from the client ends at a
\* frame boundary of its stream or inside a frame (`cut`); a chunk from the
\* server holds at least the 9 bytes of a frame header or fewer (`short`).
PumpReadChunk(side, cut, short) ==
    /\ rl_pc = "select"
    /\ Len(rl_read[side]) < MaxChunks
    /\ cut => side = "client"
    /\ short => side = "server"
    /\ rl_short' = IF short THEN rl_short \cup {Len(rl_read[side]) + 1} ELSE rl_short
    /\ rl_read' = [rl_read EXCEPT ![side] = Append(@, Chunk(side, Len(@) + 1))]
    /\ rl_cut' = IF cut THEN rl_cut \cup {Len(rl_read[side]) + 1} ELSE rl_cut
    /\ rl_source' = side
    /\ rl_pc' = IF rl_kind = "h2" /\ side = "server" THEN "process" ELSE "write"
    /\ UNCHANGED <<rl_kind, rl_written, rl_pending, rl_zero, rl_ret, rlframe>>

\* handle_incoming_frame on the chunk in the buffer: Http2Frame::parse fails
\* on fewer than 9 bytes, and no handler of process_frame returns an error.
ChunkParses == Len(rl_read["server"]) \notin rl_short

\* tokio::select!: a read returns 0 bytes; the loop breaks.
PumpReadZero(side) ==
    /\ rl_pc = "select"
    /\ rl_zero' = TRUE
    /\ PumpReturns("Ok")
    /\ UNCHANGED <<rl_kind, rl_read, rl_written, rl_source, rl_pending, rl_cut, rl_short, rlframe>>

\* tokio::select!: a read fails.
PumpReadError(side) ==
    /\ rl_pc = "select"
    /\ PumpOnError
    /\ UNCHANGED <<rl_kind, rl_read, rl_written, rl_source, rl_pending, rl_zero, rl_cut, rl_short, rlframe>>

\* proxy_http2_bidirectional: handle_incoming_frame on the chunk read from
\* the server and check_and_send_window_updates give the frames to write to
\* the server, or the chunk does not parse and the error is returned (`?`).
PumpProcessFrame(has_response, updates) ==
    /\ rl_pc = "process"
    /\ IF ChunkParses
       THEN /\ rl_pending' = (IF has_response THEN <<Injected("response_frames")>>
                                               ELSE << >>)
                             \o [i \in 1..updates |-> Injected("window_update")]
            /\ rl_pc' = "inject"
            /\ UNCHANGED rl_ret
       ELSE PumpOnError /\ UNCHANGED rl_pending
    /\ UNCHANGED <<rl_kind, rl_read, rl_written, rl_source, rl_zero, rl_cut, rl_short, rlframe>>

\* proxy_http2_bidirectional: the next frame of the engine is written to
\* the server, or none is left and the chunk is forwarded next.
PumpInject(ok) ==
    /\ rl_pc = "inject"
    /\ IF rl_pending = << >>
       THEN /\ rl_pc' = "write"
            /\ UNCHANGED <<rl_written, rl_pending, rl_ret>>
       ELSE IF ok
       THEN /\ rl_written' = [rl_written EXCEPT !["server"] = Append(@, Head(rl_pending))]
            /\ rl_pending' = Tail(rl_pending)
            /\ UNCHANGED <<rl_pc, rl_ret>>
       ELSE PumpOnError /\ UNCHANGED <<rl_written, rl_pending>>
    /\ UNCHANGED <<rl_kind, rl_read, rl_source, rl_zero, rl_cut, rl_short, rlframe>>

\* The chunk read is written to the other peer (write_all), after the
\* natural delay; then mark_activity and the next iteration.
PumpWrite(ok) ==
    /\ rl_pc = "write"
    /\ IF ok
       THEN /\ rl_written' = [rl_written EXCEPT ![WriteTarget(rl_source)] =
                                 Append(@, rl_read[rl_source][Len(rl_read[rl_source])])]
            /\ rl_pc' = "top"
            /\ UNCHANGED rl_ret
       ELSE PumpOnError /\ UNCHANGED rl_written
    /\ UNCHANGED <<rl_kind, rl_read, rl_source, rl_pending, rl_zero, rl_cut, rl_short, rlframe>>

\* GracefulShutdown::initiate_shutdown is called while the relay runs.
PumpShutdown ==
    /\ rl_pc \notin {"new", "done"}
    /\ InitiateShutdown

PumpNext ==
    \/ \E kind \in {"plain", "h2"} : PumpEnter(kind)
    \/ PumpTop
    \/ \E side \in Sides, cut, short \in BOOLEAN : PumpReadChunk(side, cut, short)
    \/ \E side \in Sides : PumpReadZero(side)
    \/ \E side \in Sides : PumpReadError(side)
    \/ \E has_response \in BOOLEAN, updates \in 0..1 :
          PumpProcessFrame(has_response, updates)
    \/ \E ok \in BOOLEAN : PumpInject(ok)
    \/ \E ok \in BOOLEAN : PumpWrite(ok)
    \/ PumpShutdown

(***************************************************************************)
(* http2.rs: Http2Frame::serialize and Http2Frame::parse, on bytes.        *)
(*                                                                         *)
(* A byte is a number in 0..255 and a buffer a sequence of bytes.  The     *)
(* stream_id field (u32) is held as its four big-endian bytes, so that the *)
(* values at and above 2^31 can be written down; the length field (u32) is *)
(* held as a number.                                                       *)
(***************************************************************************)
MAX_FRAME_SIZE == 16384

FRAME_DATA == 0

FRAME_SETTINGS == 4

FRAME_PING == 6

FRAME_GOAWAY == 7

FLAG_ACK == 1

\* self.length.to_be_bytes()[1..4]: the three low bytes of the length
LengthBytes(length) ==
    <<(length \div 65536) % 256, (length \div 256) % 256, length % 256>>

\* u32::from_be_bytes([0, data[0], data[1], data[2]])
LengthOf(data) == data[1] * 65536 + data[2] * 256 + data[3]

\* Http2Frame::serialize with the stream id written as it is stored.
Serialize(frame) ==
    LengthBytes(frame.length) \o <<frame.frame_type, frame.flags>>
        \o frame.stream_id \o frame.payload

\* u32::from_be_bytes([data[5], data[6], data[7], data[8]]) & 0x7FFFFFFF
MaskedStreamId(data) == <<data[6] % 128, data[7], data[8], data[9]>>

\* Http2Frame::parse: only a buffer under 9 bytes is an error; a buffer
\* shorter than 9 + length gives the frame with an empty payload.
Parse(data) ==
    IF Len(data) < 9
    THEN [tag |-> "Err"]
    ELSE [tag |-> "Ok",
          frame |-> [length |-> LengthOf(data),
                     frame_type |-> data[4],
                     flags |-> data[5],
                     stream_id |-> MaskedStreamId(data),
                     payload |-> IF Len(data) >= 9 + LengthOf(data)
                                 THEN SubSeq(data, 10, 9 + LengthOf(data))
                                 ELSE << >>]]

\* Payload lengths of the frames given to serialize.
PayloadLengths == {0, 1, 2, 300, MAX_FRAME_SIZE}

\* Stream ids of the frames given to serialize: 0, 1, 2^31 - 1, 2^31 + 1.
StreamIdInputs == {<<0, 0, 0, 0>>, <<0, 0, 0, 1>>, <<127, 255, 255, 255>>,
                   <<128, 0, 0, 1>>}

\* The frames given to serialize.  The fields of Http2Frame are public: the
\* length field may differ from the length of the payload.
FrameInputs ==
    {[length |-> n + extra, frame_type |-> t, flags |-> g, stream_id |-> id,
      payload |-> Fill(n)] :
        n \in PayloadLengths, extra \in {0, 1},
        t \in {FRAME_DATA, FRAME_SETTINGS, FRAME_PING}, g \in {0, FLAG_ACK},
        id \in StreamIdInputs}

NoFrame == [length |-> 0, frame_type |-> 0, flags |-> 0,
            stream_id |-> <<0, 0, 0, 0>>, payload |-> << >>]

CodecInit ==
    /\ cd_pc = "new"
    /\ cd_frame = NoFrame
    /\ cd_buf = << >>
    /\ cd_short = FALSE
    /\ cd_parsed = [tag |-> "none"]

\* A caller builds a frame.
NewFrame(frame) ==
    /\ cd_pc = "new"
    /\ cd_frame' = frame
    /\ cd_pc' = "frame"
    /\ UNCHANGED <<cd_buf, cd_short, cd_parsed, cdframe>>

\* Http2Frame::serialize
SerializeFrame ==
    /\ cd_pc = "frame"
    /\ cd_buf' = Serialize(cd_frame)
    /\ cd_pc' = "bytes"
    /\ UNCHANGED <<cd_frame, cd_short, cd_parsed, cdframe>>

\* The receiver has only the first n bytes of the serialized frame in its
\* buffer (a read returns what has arrived).
ReceiveShort(n) ==
    /\ cd_pc = "bytes"
    /\ ~cd_short
    /\ n < Len(cd_buf)
    /\ cd_buf' = SubSeq(cd_buf, 1, n)
    /\ cd_short' = TRUE
    /\ UNCHANGED <<cd_pc, cd_frame, cd_parsed, cdframe>>

\* Http2Frame::parse on the buffer
ParseFrame ==
    /\ cd_pc = "bytes"
    /\ cd_parsed' = Parse(cd_buf)
    /\ cd_pc' = "parsed"
    /\ UNCHANGED <<cd_frame, cd_buf, cd_short, cdframe>>

\* Prefix lengths of a buffer that ends early.
ShortLengths == {0, 8, 9, 10}

CodecNext ==
    \/ \E frame \in FrameInputs : NewFrame(frame)
    \/ SerializeFrame
    \/ \E n \in ShortLengths : ReceiveShort(n)
    \/ ParseFrame

(***************************************************************************)
(* http2.rs: Http2Handler::handle_incoming_frame on the bytes of one chunk *)
(* read from the server, with the handlers of SETTINGS and PING.           *)
(*                                                                         *)
(* The chunks offered carry SETTINGS, PING and GOAWAY frames: the frame    *)
(* types whose handlers leave the flow controller, the priority tree and   *)
(* the stream table alone.                                                 *)
(***************************************************************************)
HEADER_TABLE_SIZE == 65536

\* const PREFACE: b"PRI * HTTP/2.0\r\n\r\nSM\r\n\r\n"
PREFACE == <<80, 82, 73, 32, 42, 32, 72, 84, 84, 80, 47, 50, 46, 48,
             13, 10, 13, 10, 83, 77, 13, 10, 13, 10>>

\* Stream id 0 as stored in a frame.
StreamZero == <<0, 0, 0, 0>>

\* impl Default for Http2Settings
DefaultSettings ==
    [header_table_size |-> HEADER_TABLE_SIZE,
     enable_push |-> FALSE,
     max_concurrent_streams |-> 100,
     initial_window_size |-> INITIAL_WINDOW_SIZE,
     max_frame_size |-> MAX_FRAME_SIZE,
     max_header_list_size |-> 0]

\* (frame.flags & FLAG_ACK) != 0, FLAG_ACK being the lowest bit
HasAck(frame) == frame.flags % 2 = FLAG_ACK

\* u16::from_be_bytes of the two bytes at the 0-based offset
U16At(bytes, offset) == bytes[offset + 1] * 256 + bytes[offset + 2]

\* u32::from_be_bytes of the four bytes at the 0-based offset (the values
\* offered stay below 2^31)
U32At(bytes, offset) ==
    bytes[offset + 1] * 16777216 + bytes[offset + 2] * 65536
        + bytes[offset + 3] * 256 + bytes[offset + 4]

\* handle_settings_frame: one arm of the match on the setting id
SetById(settings, id, value) ==
    CASE id = 1 -> [settings EXCEPT !.header_table_size = value]
      [] id = 2 -> [settings EXCEPT !.enable_push = (value # 0)]
      [] id = 3 -> [settings EXCEPT !.max_concurrent_streams = value]
      [] id = 4 -> [settings EXCEPT !.initial_window_size = value]
      [] id = 5 -> [settings EXCEPT !.max_frame_size = value]
      [] id = 6 -> [settings EXCEPT !.max_header_list_size = value]
      [] OTHER -> settings

\* handle_settings_frame: the loop `while offset + 6 <= frame.payload.len()`
RECURSIVE ReadSettings(_, _, _)
ReadSettings(settings, payload, offset) ==
    IF offset + 6 <= Len(payload)
    THEN ReadSettings(SetById(settings, U16At(payload, offset),
                              U32At(payload, offset + 2)),
                      payload, offset + 6)
    ELSE settings

\* Http2Handler::build_settings_ack
BuildSettingsAck ==
    Serialize([length |-> 0, frame_type |-> FRAME_SETTINGS, flags |-> FLAG_ACK,
               stream_id |-> StreamZero, payload |-> << >>])

\* A PING answered by a PING without the ACK flag.
BuildPingAckSameFlags(data) ==
    Serialize([length |-> 8, frame_type |-> FRAME_PING, flags |-> 0,
               stream_id |-> StreamZero, payload |-> data])

\* Http2Handler::build_ping_ack
BuildPingAck(data) ==
    Serialize([length |-> 8, frame_type |-> FRAME_PING, flags |-> FLAG_ACK,
               stream_id |-> StreamZero, payload |-> data])

\* Result<Vec<u8>> of a handler, with the remote_settings it leaves.
Handled(bytes, remote) == [tag |-> "Ok", bytes |-> bytes, remote |-> remote]

\* A SETTINGS handler that does not look at the ACK flag.
HandleSettingsFrameAnyFlags(frame, remote) ==
    Handled(BuildSettingsAck,
            [tag |-> "Some",
             settings |-> ReadSettings(DefaultSettings, frame.payload, 0)])

\* Http2Handler::handle_settings_frame
HandleSettingsFrame(frame, remote) ==
    IF HasAck(frame)
    THEN Handled(<< >>, remote)
    ELSE Handled(BuildSettingsAck,
                 [tag |-> "Some",
                  settings |-> ReadSettings(DefaultSettings, frame.payload, 0)])

\* Http2Handler::handle_ping_frame
HandlePingFrame(frame, remote) ==
    IF HasAck(frame)
    THEN Handled(<< >>, remote)
    ELSE IF Len(frame.payload) >= 8
    THEN Handled(BuildPingAck(SubSeq(frame.payload, 1, 8)), remote)
    ELSE Handled(<< >>, remote)

\* Http2Handler::process_frame, for the frame types offered here:
\* handle_goaway_frame returns an empty response, and so does the `_` arm
\* for a type byte above FRAME_CONTINUATION (9).
ProcessWireFrame(frame, remote) ==
    CASE frame.frame_type = FRAME_SETTINGS -> HandleSettingsFrame(frame, remote)
      [] frame.frame_type = FRAME_PING -> HandlePingFrame(frame, remote)
      [] frame.frame_type = FRAME_GOAWAY -> Handled(<< >>, remote)
      [] frame.frame_type > 9 -> Handled(<< >>, remote)

\* handle_incoming_frame past the preface test: Http2Frame::parse(data)?
\* and process_frame on the one frame parsed.
ParseAndProcess(data, remote) ==
    IF Parse(data).tag = "Err"
    THEN [tag |-> "Err", bytes |-> << >>, remote |-> remote]
    ELSE ProcessWireFrame(Parse(data).frame, remote)

\* data.starts_with(PREFACE)
StartsWithPreface(data) ==
    /\ Len(data) >= Len(PREFACE)
    /\ SubSeq(data, 1, Len(PREFACE)) = PREFACE

\* One setting of a SETTINGS payload: id (u16) and value (u32).
Setting(id, value) ==
    <<0, id, (value \div 16777216) % 256, (value \div 65536) % 256,
      (value \div 256) % 256, value % 256>>

\* A received frame whose length field is the length of its payload.
WireFrame(type, flags, id, payload) ==
    [length |-> Len(payload), frame_type |-> type, flags |-> flags,
     stream_id |-> id, payload |-> payload]

\* PING payloads received: 8 opaque bytes, or fewer.
PingPayloads == {<<1, 2, 3, 4, 5, 6, 7, 8>>, Fill(4)}

\* The frames a chunk is made of.
WireFrames ==
    {WireFrame(FRAME_SETTINGS, 0, StreamZero,
               Setting(4, 65535) \o Setting(2, 1) \o Setting(9, 1)),
     WireFrame(FRAME_SETTINGS, FLAG_ACK, StreamZero, Setting(3, 50)),
     WireFrame(FRAME_PING, FLAG_ACK, StreamZero, <<1, 2, 3, 4, 5, 6, 7, 8>>),
     WireFrame(FRAME_GOAWAY, 0, StreamZero, Fill(8))}
    \cup {WireFrame(FRAME_PING, 0, StreamZero, p) : p \in PingPayloads}

\* Number of frames in one chunk.
MaxFramesPerChunk == 2

\* The chunks a read from the server returns: the preface literal or not,
\* then complete frames back to back.  A read of 0 bytes ends the relay
\* before the engine is called.
FrameLists == UNION {[1..n -> WireFrames] : n \in 0..MaxFramesPerChunk}

ChunkInputs ==
    {[preface |-> p, frames |-> fs] : p \in BOOLEAN, fs \in FrameLists}
        \ {[preface |-> FALSE, frames |-> << >>]}

\* The bytes of the frames, back to back.
RECURSIVE FramesBytes(_)
FramesBytes(frames) ==
    IF frames = << >> THEN << >>
    ELSE Serialize(Head(frames)) \o FramesBytes(Tail(frames))

\* The bytes of a chunk.
ChunkBytes(chunk) ==
    (IF chunk.preface THEN PREFACE ELSE << >>) \o FramesBytes(chunk.frames)

\* Http2Handler::new_ios_safari, before the first chunk.
IncomingInit ==
    /\ preface_received = FALSE
    /\ remote_settings = [tag |-> "None"]
    /\ hi_chunk = [preface |-> FALSE, frames |-> << >>]
    /\ hi_data = << >>
    /\ hi_ret = [tag |-> "none", bytes |-> << >>]

\* Http2Handler::handle_incoming_frame(data).  The recursive call on the
\* bytes after the preface runs with preface_received already set, so it
\* goes straight to parse.
HandleIncomingFrameCall(chunk) ==
    /\ hi_chunk' = chunk
    /\ LET data == ChunkBytes(chunk)
           preface_seen == ~preface_received /\ StartsWithPreface(data)
           rest == IF preface_seen
                   THEN SubSeq(data, Len(PREFACE) + 1, Len(data)) ELSE data
           handled == ParseAndProcess(rest, remote_settings)
       IN  /\ hi_data' = data
           /\ preface_received' = (preface_received \/ preface_seen)
           /\ IF preface_seen /\ ~(Len(data) > Len(PREFACE))
              THEN /\ hi_ret' = [tag |-> "Ok", bytes |-> << >>]
                   /\ UNCHANGED remote_settings
              ELSE /\ hi_ret' = [tag |-> handled.tag, bytes |-> handled.bytes]
                   /\ remote_settings' = handled.remote

\* The call made on an engine that nothing else uses.
HandleIncomingFrame(chunk) ==
    /\ HandleIncomingFrameCall(chunk)
    /\ UNCHANGED hiframe

IncomingNext == \E chunk \in ChunkInputs : HandleIncomingFrame(chunk)

(***************************************************************************)
(* tls.rs: TlsClientHello::parse and TlsClientHello::to_ios_safari, on     *)
(* bytes.  Offsets are 0-based as in the code.  An index or a slice past   *)
(* the end of the buffer panics (Rust checks every bound); parse then      *)
(* returns nothing, which is the result "Panic" here.                      *)
(***************************************************************************)
TLS_HANDSHAKE == 22

CLIENT_HELLO == 1

\* const TLS_VERSION_1_2
TLS_VERSION_1_2 == <<3, 3>>

\* bytes[a..b]
Slice(bytes, a, b) == SubSeq(bytes, a + 1, b)

\* put_u16 / u16::to_be_bytes
U16Bytes(n) == <<(n \div 256) % 256, n % 256>>

HelloErr == [tag |-> "Err"]

HelloPanic == [tag |-> "Panic"]

\* parse: the loop `while offset < extensions_end` over the extensions.
RECURSIVE ReadExtensions(_, _, _, _)
ReadExtensions(hs, offset, extensions_end, extensions) ==
    IF offset < extensions_end
    THEN IF offset + 4 > Len(hs)
         THEN HelloPanic
         ELSE IF offset + 4 + U16At(hs, offset + 2) > Len(hs)
         THEN HelloPanic
         ELSE ReadExtensions(
                 hs, offset + 4 + U16At(hs, offset + 2), extensions_end,
                 Append(extensions,
                        [extension_type |-> U16At(hs, offset),
                         data |-> Slice(hs, offset + 4,
                                        offset + 4 + U16At(hs, offset + 2))]))
    ELSE [tag |-> "Ok", extensions |-> extensions]

\* parse: the extensions block, present when bytes remain after the
\* compression methods.
ParseExtensions(hs, offset) ==
    IF offset < Len(hs)
    THEN IF offset + 2 > Len(hs)
         THEN HelloPanic
         ELSE ReadExtensions(hs, offset + 2,
                             offset + 2 + U16At(hs, offset), << >>)
    ELSE [tag |-> "Ok", extensions |-> << >>]

\* parse: the loop `for i in (0..cipher_suites_len).step_by(2)`; with an odd
\* length the last pair takes the byte after the list.
CipherSuitesAt(hs, offset, cipher_suites_len) ==
    [k \in 1..((cipher_suites_len + 1) \div 2) |-> U16At(hs, offset + 2 * (k - 1))]

\* Bytes the cipher-suite loop reads.
CipherBytesRead(cipher_suites_len) == 2 * ((cipher_suites_len + 1) \div 2)

\* parse from the compression methods on; `offset` is that of their length.
ParseCompression(hs, offset, fields) ==
    IF offset >= Len(hs)
    THEN HelloPanic
    ELSE IF offset + 1 + hs[offset + 1] > Len(hs)
    THEN HelloPanic
    ELSE LET exts == ParseExtensions(hs, offset + 1 + hs[offset + 1])
         IN  IF exts.tag = "Panic"
             THEN HelloPanic
             ELSE [tag |-> "Ok",
                   version |-> fields.version,
                   random |-> fields.random,
                   session_id |-> fields.session_id,
                   cipher_suites |-> fields.cipher_suites,
                   compression_methods |->
                       Slice(hs, offset + 1, offset + 1 + hs[offset + 1]),
                   extensions |-> exts.extensions]

\* parse from the cipher suites on; `offset` is that of their length.
ParseCipherSuites(hs, offset, fields) ==
    IF offset + 2 > Len(hs)
    THEN HelloPanic
    ELSE IF offset + 2 + CipherBytesRead(U16At(hs, offset)) > Len(hs)
    THEN HelloPanic
    ELSE ParseCompression(
            hs, offset + 2 + U16At(hs, offset),
            [fields EXCEPT !.cipher_suites =
                CipherSuitesAt(hs, offset + 2, U16At(hs, offset))])

\* parse from the handshake header on (handshake_data = &data[5..]).
ParseHandshake(hs) ==
    IF Len(hs) = 0
    THEN HelloPanic
    ELSE IF hs[1] # CLIENT_HELLO
    THEN HelloErr
    ELSE IF Len(hs) < 6
    THEN HelloPanic
    ELSE IF Len(hs) < 38
    THEN HelloPanic
    ELSE IF Len(hs) < 39
    THEN HelloPanic
    ELSE IF 39 + hs[39] > Len(hs)
    THEN HelloPanic
    ELSE ParseCipherSuites(
            hs, 39 + hs[39],
            [version |-> Slice(hs, 4, 6),
             random |-> Slice(hs, 6, 38),
             session_id |-> Slice(hs, 39, 39 + hs[39]),
             cipher_suites |-> << >>])

\* TlsClientHello::parse
ParseHello(data) ==
    IF Len(data) < 5
    THEN HelloErr
    ELSE IF data[1] # TLS_HANDSHAKE
    THEN HelloErr
    ELSE IF Len(data) < 5 + U16At(data, 3)
    THEN HelloErr
    ELSE ParseHandshake(Slice(data, 5, Len(data)))

\* get_ios_safari_cipher_suites: 0x1301, 0x1302, 0x1303, 0xc02c, 0xc02b,
\* 0xcca9, 0xcca8, 0xc030, 0xc02f, 0xc024, 0xc023, 0xc028, 0xc027, 0xc00a,
\* 0xc009, 0xc014, 0xc013
IosSafariCipherSuites ==
    <<4865, 4866, 4867, 49196, 49195, 52393, 52392, 49200, 49199, 49188,
      49187, 49192, 49191, 49162, 49161, 49172, 49171>>

\* get_grease_values: 0x0a0a, 0x1a1a, ..., 0xfafa
GreaseValues == [i \in 1..16 |-> 2570 + (i - 1) * 4112]

\* The u16 values of a list as bytes (put_u16 each).
RECURSIVE U16ListBytes(_)
U16ListBytes(list) ==
    IF list = << >> THEN << >>
    ELSE U16Bytes(Head(list)) \o U16ListBytes(Tail(list))

\* find_extension_data(ext_type).unwrap_or(default)
RECURSIVE FindExtensionData(_, _, _)
FindExtensionData(extensions, ext_type, default) ==
    IF extensions = << >> THEN default
    ELSE IF Head(extensions).extension_type = ext_type
    THEN Head(extensions).data
    ELSE FindExtensionData(Tail(extensions), ext_type, default)

Extension(ext_type, data) == [extension_type |-> ext_type, data |-> data]

\* build_ios_extensions: `grease` is the value the generator picks, `ticket`
\* what ticket_cache.get(domain) returns (empty for None), `key` the 32
\* generated bytes of the key share.
BuildIosExtensions(hello, grease, ticket, key) ==
    <<Extension(grease, << >>),
      Extension(0, FindExtensionData(hello.extensions, 0, << >>)),
      Extension(23, << >>),
      Extension(65281, <<0>>),
      Extension(10, <<0, 10, 0, 29, 0, 23, 0, 24, 0, 25>>),
      Extension(11, <<1, 0>>),
      Extension(35, ticket),
      Extension(16, FindExtensionData(hello.extensions, 16,
                       <<0, 12, 2, 104, 50, 8, 104, 116, 116, 112, 47, 49, 46, 49>>)),
      Extension(5, <<1, 0, 0, 0, 0>>),
      Extension(13, <<0, 20, 4, 3, 8, 4, 4, 1, 5, 3, 8, 5, 5, 1, 8, 6, 6, 1, 2, 1>>),
      Extension(51, <<0, 29, 0, 32>> \o key),
      Extension(43, <<3, 4, 3, 3>>),
      Extension(27, <<2, 0, 2>>),
      Extension(21, <<0>>)>>

\* serialize_extensions
RECURSIVE SerializeExtensions(_)
SerializeExtensions(extensions) ==
    IF extensions = << >> THEN << >>
    ELSE U16Bytes(Head(extensions).extension_type)
            \o U16Bytes(Len(Head(extensions).data))
            \o Head(extensions).data
            \o SerializeExtensions(Tail(extensions))

\* to_ios_safari: the ClientHello body, with the 32 generated bytes `random`.
IosClientHelloBody(hello, random, grease, ticket, key) ==
    LET extensions_bytes ==
            SerializeExtensions(BuildIosExtensions(hello, grease, ticket, key))
    IN  TLS_VERSION_1_2 \o random \o <<0>>
            \o U16Bytes(Len(IosSafariCipherSuites) * 2)
            \o U16ListBytes(IosSafariCipherSuites)
            \o <<1, 0>>
            \o U16Bytes(Len(extensions_bytes)) \o extensions_bytes

\* TlsClientHello::to_ios_safari
ToIosSafariBytes(hello, random, grease, ticket, key) ==
    LET client_hello == IosClientHelloBody(hello, random, grease, ticket, key)
        handshake == <<CLIENT_HELLO>> \o LengthBytes(Len(client_hello))
                        \o client_hello
    IN  <<TLS_HANDSHAKE>> \o TLS_VERSION_1_2 \o U16Bytes(Len(handshake))
            \o handshake

\* 32 equal bytes.
Bytes32(b) == [i \in 1..32 |-> b]

\* A ClientHello record as a client writes it: the body with the lengths it
\* declares for the session id, the cipher suites and the compression
\* methods, under a handshake header and a record header that give the
\* true lengths.
HelloRecord(record_type, handshake_type, random, sid_len, sid, cs_len, cs,
            comp_len, comp, exts) ==
    LET body == TLS_VERSION_1_2 \o random \o <<sid_len>> \o sid
                   \o U16Bytes(cs_len) \o cs \o <<comp_len>> \o comp \o exts
    IN  <<record_type, 3, 1>> \o U16Bytes(Len(body) + 4)
            \o <<handshake_type>> \o LengthBytes(Len(body)) \o body

\* A server_name extension block: extensions length, then type 0 with the
\* name "ab".
SniBlock == <<0, 11, 0, 0, 0, 7, 0, 5, 0, 0, 2, 97, 98>>

\* The first n bytes of a record, as a record of that length.
ShortRecord(data, n) ==
    IF n < 5 THEN SubSeq(data, 1, n)
    ELSE SubSeq(data, 1, 3) \o U16Bytes(n - 5) \o SubSeq(data, 6, n)

\* Well-formed ClientHellos: session id empty or <<5, 6>>; cipher list
\* [0xC02B], [0x1301, 0xC02B, 0xC02B] or empty; with server_name or without
\* extensions.
WellFormedHellos ==
    {HelloRecord(TLS_HANDSHAKE, CLIENT_HELLO, Bytes32(r), Len(sid), sid,
                 Len(cs), cs, Len(comp), comp, exts) :
        r \in {7, 9}, sid \in {<< >>, <<5, 6>>},
        cs \in {<< >>, <<192, 43>>, <<19, 1, 192, 43, 192, 43>>},
        comp \in {<< >>, <<0>>}, exts \in {<< >>, SniBlock}}

\* The smallest well-formed ClientHello: no session id, no cipher suite, no
\* compression method, no extensions (47 bytes).
MinimalHello ==
    HelloRecord(TLS_HANDSHAKE, CLIENT_HELLO, Bytes32(7), 0, << >>, 0, << >>,
                0, << >>, << >>)

\* A record type other than 0x16, a handshake type other than 0x01.
WrongTypeHellos ==
    {HelloRecord(23, CLIENT_HELLO, Bytes32(7), 0, << >>, 2, <<192, 43>>, 1, <<0>>, << >>),
     HelloRecord(TLS_HANDSHAKE, 2, Bytes32(7), 0, << >>, 2, <<192, 43>>, 1, <<0>>, << >>)}

\* A session-id, cipher-suite or compression length that overruns the
\* buffer.
OverrunHellos ==
    {HelloRecord(TLS_HANDSHAKE, CLIENT_HELLO, Bytes32(7), 32, <<5, 6>>, 2, <<192, 43>>, 1, <<0>>, << >>),
     HelloRecord(TLS_HANDSHAKE, CLIENT_HELLO, Bytes32(7), 0, << >>, 200, <<192, 43>>, 1, <<0>>, << >>),
     HelloRecord(TLS_HANDSHAKE, CLIENT_HELLO, Bytes32(7), 0, << >>, 2, <<192, 43>>, 9, <<0>>, << >>)}

\* An odd cipher-suite length: 3 before a compression method, 1 before none.
OddCipherLengthHellos ==
    {HelloRecord(TLS_HANDSHAKE, CLIENT_HELLO, Bytes32(7), 0, << >>, 3, <<192, 43, 0>>, 1, <<0>>, << >>),
     HelloRecord(TLS_HANDSHAKE, CLIENT_HELLO, Bytes32(7), 0, << >>, 1, <<192>>, 0, << >>, << >>)}

\* Records of fewer than 43 bytes.
ShortHellos == {ShortRecord(MinimalHello, n) : n \in {4, 5, 6, 10, 42}}

\* Records of 43 to 46 bytes, and a record whose length field announces
\* more than the buffer holds.
CutHellos ==
    {ShortRecord(MinimalHello, 43), ShortRecord(MinimalHello, 46),
     SubSeq(MinimalHello, 1, 46)}

MalformedHellos ==
    WrongTypeHellos \cup OverrunHellos \cup OddCipherLengthHellos
        \cup ShortHellos \cup CutHellos

HelloInputs == WellFormedHellos \cup MalformedHellos

HelloInit ==
    /\ hello_pc = "new"
    /\ hello_data = << >>
    /\ hello_parsed = [tag |-> "none"]
    /\ hello_out = << >>

\* The first packet of a connection arrives.
ReceiveHello(data) ==
    /\ hello_pc = "new"
    /\ hello_data' = data
    /\ hello_pc' = "received"
    /\ UNCHANGED <<hello_parsed, hello_out, helloframe>>

\* TlsClientHello::parse(first_packet)
ParseClientHello ==
    /\ hello_pc = "received"
    /\ hello_parsed' = ParseHello(hello_data)
    /\ hello_pc' = CASE ParseHello(hello_data).tag = "Ok" -> "parsed"
                     [] ParseHello(hello_data).tag = "Err" -> "failed"
                     [] ParseHello(hello_data).tag = "Panic" -> "panicked"
    /\ UNCHANGED <<hello_data, hello_out, helloframe>>

\* client_hello.to_ios_safari(Some(&session_cache), &domain); b is the byte
\* the generator gives for every generated byte.
ToIosSafari(b, grease_idx, ticket) ==
    /\ hello_pc = "parsed"
    /\ hello_out' = ToIosSafariBytes(hello_parsed, Bytes32(b),
                                     GreaseValues[grease_idx], ticket, Bytes32(b))
    /\ hello_pc' = "rewritten"
    /\ UNCHANGED <<hello_data, hello_parsed, helloframe>>

HelloNext ==
    \/ \E data \in HelloInputs : ReceiveHello(data)
    \/ ParseClientHello
    \/ \E b \in {7, 200}, grease_idx \in {1, 16}, ticket \in {<< >>, <<1, 2, 3, 4>>} :
          ToIosSafari(b, grease_idx, ticket)

(***************************************************************************)
(* proxy.rs: ProxyHandler::cleanup_task, with state.rs:                    *)
(* ConnectionStateManager::cleanup and graceful.rs:                        *)
(* GracefulShutdown::cleanup_idle_connections.                             *)
(*                                                                         *)
(* Time is seen through what the code compares: `idle` of a GracefulShut-  *)
(* down entry says that its last_activity is more than the idle timeout    *)
(* (300 s) old, sm_stale holds the ids whose ConnectionInfo.last_activity  *)
(* is 300 s old or more.  ConnectionStateManager::update_activity has no   *)
(* caller, so a ConnectionInfo keeps the last_activity of its creation.    *)
(* The ticket cache and the challenge handler are empty here, and their    *)
(* cleanup_expired leaves them so.                                         *)
(***************************************************************************)
\* What the cleanup task leaves unchanged outside the two registries.
cuframe == <<is_shutting_down, next_id, task_pc, task_id, task_kind, relay_ret,
             task_result, sigint_pc, drain_pc, h2vars, retryvars, extbase,
             cdvars, hivars, hellovars, egvars>>

\* main: the cleanup task is spawned and waits for the first tick.
CleanupInit ==
    /\ cleanup_pc = "waiting"
    /\ to_remove = {}
    /\ sm_stale = {}
    /\ cu_lapsed = {}

\* 300 s have passed since the connection was created.
SmBecomeStale(id) ==
    /\ id \in sm_connections \ sm_stale
    /\ sm_stale' = sm_stale \cup {id}
    /\ UNCHANGED <<gs_connections, sm_connections, cleanup_pc, to_remove,
                   cu_lapsed, cuframe>>

\* cleanup_task: interval.tick() completes (every 60 s).
CleanupTick ==
    /\ cleanup_pc = "waiting"
    /\ cleanup_pc' = "state_cleanup"
    /\ UNCHANGED <<gs_connections, sm_connections, to_remove, sm_stale,
                   cu_lapsed, cuframe>>

\* ConnectionStateManager::cleanup: retain the entries with
\* now - last_activity < 300.
StateManagerCleanup ==
    /\ cleanup_pc = "state_cleanup"
    /\ sm_connections' = sm_connections \ sm_stale
    /\ sm_stale' = {}
    /\ cleanup_pc' = "scan"
    /\ UNCHANGED <<gs_connections, to_remove, cu_lapsed, cuframe>>

\* cleanup_idle_connections, under the read lock: the ids of the entries
\* that are idle and not closing.
IdleToRemove ==
    {id \in DOMAIN gs_connections :
        gs_connections[id].idle /\ ~gs_connections[id].is_closing}

\* cleanup_idle_connections: the scan; the read lock is released at the end
\* of the block.
CleanupScan ==
    /\ cleanup_pc = "scan"
    /\ to_remove' = IdleToRemove
    /\ cleanup_pc' = IF IdleToRemove = {} THEN "waiting" ELSE "remove"
    /\ UNCHANGED <<gs_connections, sm_connections, sm_stale, cu_lapsed, cuframe>>

\* cleanup_idle_connections, under the write lock: remove the ids collected.
CleanupRemove ==
    /\ cleanup_pc = "remove"
    /\ gs_connections' = [id \in (DOMAIN gs_connections) \ to_remove |->
                             gs_connections[id]]
    /\ to_remove' = {}
    /\ cleanup_pc' = "waiting"
    /\ UNCHANGED <<sm_connections, sm_stale, cu_lapsed, cuframe>>

CleanupStep ==
    \/ CleanupTick
    \/ StateManagerCleanup
    \/ CleanupScan
    \/ CleanupRemove

\* The handlers, the cleanup task and a caller of graceful_close_all, up to
\* the point where that call has marked the connections and polls.
CleanupNext ==
    \/ \E t \in Tasks : Accept(t)
    \/ \E t \in Tasks : HandlerStep(t)
    \/ \E t \in Tasks, outcome \in {"data", "eof", "error"} : RelayRead(t, outcome)
    \/ \E t \in Tasks : RelayWrite(t, FALSE)
    \/ \E id \in 1..MaxTasks : BecomeIdle(id)
    \/ \E id \in 1..MaxTasks : SmBecomeStale(id)
    \/ CleanupStep
    \/ DrainMarkClosing

(***************************************************************************)
(* http2.rs: the calls on Http2Handler, sender side and receiver side, on  *)
(* one engine.  A received frame is the Http2Frame that parse returns (its *)
(* stream id as four bytes); a stream id used as a key is a number.  The   *)
(* bytes a call returns are kept in eg_out.                                *)
(***************************************************************************)
FRAME_HEADERS == 1

FRAME_PRIORITY == 2

FRAME_RST_STREAM == 3

FRAME_WINDOW_UPDATE == 8

FLAG_END_STREAM == 1

FLAG_END_HEADERS == 4

\* Number of calls on the engine in one explored run.
MaxEngineSteps == 3

\* Stream ids the sender uses and the peer names.
EngineStreamIds == {1, 3}

\* u32::to_be_bytes
U32Bytes(n) ==
    <<(n \div 16777216) % 256, (n \div 65536) % 256, (n \div 256) % 256, n % 256>>

\* The call recorded: its name, the stream id it names, its end_stream
\* argument and the frame it was given (NoFrame where there is none).
Call(name, stream_id, end_stream, frame) ==
    [name |-> name, stream_id |-> stream_id, end_stream |-> end_stream,
     frame |-> frame]

\* Http2Handler::new_ios_safari, and handle_http2_connection not entered.
EngineInit ==
    /\ next_stream_id = 1
    /\ preface_sent = FALSE
    /\ eg_pc = "new"
    /\ eg_preface = << >>
    /\ eg_op = Call("new", 0, FALSE, NoFrame)
    /\ eg_out = << >>
    /\ eg_steps = 0
    /\ goaway_seen = FALSE

\* One more call fits in the run.
EngineStep(op, out) ==
    /\ eg_steps < MaxEngineSteps
    /\ eg_steps' = eg_steps + 1
    /\ eg_op' = op
    /\ eg_out' = out
    /\ UNCHANGED <<eg_pc, eg_preface, preface_sent, egframe>>

\* Http2Handler::create_stream (settings.initial_window_size is that of
\* Http2Settings::ios_safari)
CreateStream(stream_id) ==
    /\ EngineStep(Call("create_stream", stream_id, FALSE, NoFrame), << >>)
    /\ fc_streams' = MapInsert(fc_streams, stream_id,
                               NewStreamState(INITIAL_WINDOW_SIZE))
    /\ stream_states' = MapInsert(stream_states, stream_id, "Open")
    /\ UNCHANGED <<connection_window, priority_tree, remote_settings,
                   next_stream_id, goaway_seen>>

\* Http2Handler::get_next_stream_id: the id returned is recorded in eg_op
GetNextStreamId ==
    /\ EngineStep(Call("get_next_stream_id", next_stream_id, FALSE, NoFrame), << >>)
    /\ next_stream_id' = next_stream_id + 2
    /\ UNCHANGED <<connection_window, fc_streams, stream_states, priority_tree,
                   remote_settings, goaway_seen>>

\* Http2Handler::encode_header
EncodeHeader(name, value) == <<64, Len(name)>> \o name \o <<Len(value)>> \o value

\* Header lists given to build_headers_frame: none, or the one header
\* ":method: GET" (sort_headers leaves a list of one header as it is).
HeaderLists == {<< >>, <<[name |-> <<58, 109, 101, 116, 104, 111, 100>>,
                          value |-> <<71, 69, 84>>]>>}

\* build_headers_frame: the header block
RECURSIVE HeaderBlock(_)
HeaderBlock(headers) ==
    IF headers = << >> THEN << >>
    ELSE EncodeHeader(Head(headers).name, Head(headers).value)
            \o HeaderBlock(Tail(headers))

\* Http2Handler::build_headers_frame: the frame is built and serialized;
\* no field of the handler is assigned.
BuildHeadersFrame(stream_id, headers, end_stream) ==
    /\ EngineStep(Call("build_headers_frame", stream_id, end_stream, NoFrame),
                  Serialize([length |-> Len(HeaderBlock(headers)),
                             frame_type |-> FRAME_HEADERS,
                             flags |-> IF end_stream
                                       THEN FLAG_END_STREAM + FLAG_END_HEADERS
                                       ELSE FLAG_END_HEADERS,
                             stream_id |-> U32Bytes(stream_id),
                             payload |-> HeaderBlock(headers)]))
    /\ UNCHANGED <<connection_window, fc_streams, stream_states, priority_tree,
                   remote_settings, next_stream_id, goaway_seen>>

\* Http2Handler::build_data_frame (&self)
BuildDataFrame(stream_id, data, end_stream) ==
    /\ EngineStep(Call("build_data_frame", stream_id, end_stream, NoFrame),
                  Serialize([length |-> Len(data),
                             frame_type |-> FRAME_DATA,
                             flags |-> IF end_stream THEN FLAG_END_STREAM ELSE 0,
                             stream_id |-> U32Bytes(stream_id),
                             payload |-> data]))
    /\ UNCHANGED <<connection_window, fc_streams, stream_states, priority_tree,
                   remote_settings, next_stream_id, goaway_seen>>

\* frame.stream_id as a number (parse has masked the high bit)
StreamIdOf(frame) == U32At(frame.stream_id, 0)

\* (self.flags & FLAG_END_STREAM) != 0, FLAG_END_STREAM being the lowest bit
IsEndStream(frame) == frame.flags % 2 = FLAG_END_STREAM

\* process_frame, FRAME_HEADERS arm: handle_headers_frame
ReceiveHeaders(frame) ==
    LET id == StreamIdOf(frame)
        known == id \in DOMAIN stream_states
        created == IF known THEN stream_states
                   ELSE MapInsert(stream_states, id, "Open")
    IN
    /\ EngineStep(Call("HEADERS", id, IsEndStream(frame), frame), << >>)
    /\ fc_streams' = IF known THEN fc_streams
                     ELSE MapInsert(fc_streams, id,
                                    NewStreamState(INITIAL_WINDOW_SIZE))
    /\ stream_states' = IF IsEndStream(frame)
                        THEN [created EXCEPT ![id] = "HalfClosedRemote"]
                        ELSE created
    /\ UNCHANGED <<connection_window, priority_tree, remote_settings,
                   next_stream_id, goaway_seen>>

\* handle_priority_frame: depends_on, the first byte & 0x7F
DependsOn(payload) ==
    U32At(<<payload[1] % 128, payload[2], payload[3], payload[4]>>, 0)

\* process_frame, FRAME_PRIORITY arm: handle_priority_frame with
\* PriorityTree::update_priority (a plain insert)
ReceivePriority(frame) ==
    /\ EngineStep(Call("PRIORITY", StreamIdOf(frame), FALSE, frame), << >>)
    /\ priority_tree' =
          IF Len(frame.payload) >= 5
          THEN MapInsert(priority_tree, StreamIdOf(frame),
                         [depends_on |-> DependsOn(frame.payload),
                          weight |-> frame.payload[5],
                          exclusive |-> frame.payload[1] >= 128])
          ELSE priority_tree
    /\ UNCHANGED <<connection_window, fc_streams, stream_states,
                   remote_settings, next_stream_id, goaway_seen>>

\* process_frame, FRAME_SETTINGS arm: handle_settings_frame
ReceiveSettings(frame) ==
    LET handled == HandleSettingsFrame(frame, remote_settings) IN
    /\ EngineStep(Call("SETTINGS", 0, FALSE, frame), handled.bytes)
    /\ remote_settings' = handled.remote
    /\ UNCHANGED <<connection_window, fc_streams, stream_states, priority_tree,
                   next_stream_id, goaway_seen>>

\* process_frame, FRAME_GOAWAY arm: handle_goaway_frame logs and returns
ReceiveGoaway(frame) ==
    /\ EngineStep(Call("GOAWAY", 0, FALSE, frame), << >>)
    /\ goaway_seen' = TRUE
    /\ UNCHANGED <<connection_window, fc_streams, stream_states, priority_tree,
                   remote_settings, next_stream_id>>

\* process_frame, FRAME_WINDOW_UPDATE arm: handle_window_update_frame; the
\* increments offered have the high bit clear.
ReceiveWindowUpdate(frame) ==
    LET w == IF Len(frame.payload) >= 4
             THEN UpdateWindow(connection_window, fc_streams, StreamIdOf(frame),
                               U32At(frame.payload, 0))
             ELSE [conn |-> connection_window, streams |-> fc_streams]
    IN
    /\ EngineStep(Call("WINDOW_UPDATE", StreamIdOf(frame), FALSE, frame), << >>)
    /\ connection_window' = w.conn
    /\ fc_streams' = w.streams
    /\ UNCHANGED <<stream_states, priority_tree, remote_settings,
                   next_stream_id, goaway_seen>>

\* Received HEADERS frames.
HeadersFrames ==
    {WireFrame(FRAME_HEADERS, g, U32Bytes(1), << >>) :
        g \in {FLAG_END_HEADERS, FLAG_END_HEADERS + FLAG_END_STREAM}}

\* Received PRIORITY frames: stream, parent, weight 16; one with the
\* exclusive bit, one with a payload under 5 bytes.
PriorityFrames ==
    {WireFrame(FRAME_PRIORITY, 0, U32Bytes(id), U32Bytes(dep) \o <<16>>) :
        id \in EngineStreamIds, dep \in {0} \cup EngineStreamIds}
    \cup {WireFrame(FRAME_PRIORITY, 0, U32Bytes(1), <<128, 0, 0, 0, 16>>),
          WireFrame(FRAME_PRIORITY, 0, U32Bytes(1), Fill(4))}

\* Received SETTINGS frames.
SettingsFrames ==
    {WireFrame(FRAME_SETTINGS, 0, StreamZero, Setting(4, 65535) \o Setting(9, 1)),
     WireFrame(FRAME_SETTINGS, 0, StreamZero, Setting(3, 50)),
     WireFrame(FRAME_SETTINGS, FLAG_ACK, StreamZero, << >>)}

\* Received GOAWAY frames: last-stream-id 1, NO_ERROR.
GoawayFrames ==
    {WireFrame(FRAME_GOAWAY, 0, StreamZero, U32Bytes(1) \o U32Bytes(0))}

\* Received WINDOW_UPDATE frames: on the connection and on stream 1, with a
\* zero and a non-zero increment; one with a payload under 4 bytes.
WindowUpdateFrames ==
    {WireFrame(FRAME_WINDOW_UPDATE, 0, U32Bytes(id), U32Bytes(inc)) :
        id \in {0, 1}, inc \in {0, 600000}}
    \cup {WireFrame(FRAME_WINDOW_UPDATE, 0, StreamZero, << >>)}

\* A caller of the sender side and a peer sending frames.
EngineNext ==
    \/ \E id \in EngineStreamIds : CreateStream(id)
    \/ GetNextStreamId
    \/ \E id \in EngineStreamIds, h \in HeaderLists, es \in BOOLEAN :
          BuildHeadersFrame(id, h, es)
    \/ \E id \in EngineStreamIds, es \in BOOLEAN : BuildDataFrame(id, Fill(2), es)
    \/ \E frame \in HeadersFrames : ReceiveHeaders(frame)
    \/ \E frame \in PriorityFrames : ReceivePriority(frame)
    \/ \E frame \in SettingsFrames : ReceiveSettings(frame)
    \/ \E frame \in GoawayFrames : ReceiveGoaway(frame)
    \/ \E frame \in WindowUpdateFrames : ReceiveWindowUpdate(frame)

(***************************************************************************)
(* proxy.rs: handle_http2_connection, the one user of the engine.  The     *)
(* engine is created, build_connection_preface is called and its bytes are *)
(* written to the server, then the client's first bytes, and only then     *)
(* does the relay loop hand the engine the chunks read from the server and *)
(* ask it for window updates.  A chunk holding a DATA frame reaches the    *)
(* flow controller through handle_data_frame, which returns no bytes.      *)
(***************************************************************************)
\* Http2Settings::ios_safari
IosSafariSettings ==
    [header_table_size |-> 65536,
     enable_push |-> FALSE,
     max_concurrent_streams |-> 100,
     initial_window_size |-> 1048576,
     max_frame_size |-> 16384,
     max_header_list_size |-> 0]

\* Http2Settings::to_frame: the 9-byte header with the payload length, then
\* three settings.  The identifier written for header_table_size is
\* header_table_size.to_be_bytes()[2..4], the two low bytes of the value.
ToFrame(settings) ==
    LET payload ==
            SubSeq(U32Bytes(settings.header_table_size), 3, 4)
                \o U32Bytes(settings.header_table_size)
                \o <<0, 4>> \o U32Bytes(settings.initial_window_size)
                \o <<0, 5>> \o U32Bytes(settings.max_frame_size)
    IN  SubSeq(U32Bytes(Len(payload)), 2, 4) \o <<4, 0>> \o <<0, 0, 0, 0>>
            \o payload

\* The bytes of build_connection_preface: the literal, then the SETTINGS
\* frame of the engine's own settings.
ConnectionPreface == PREFACE \o ToFrame(IosSafariSettings)

\* What the connection leaves unchanged outside the engine.
connframe == <<regvars, retryvars, extbase, cdvars, hellovars, cuvars>>

\* Http2Handler::build_connection_preface, called right after
\* new_ios_safari
BuildConnectionPreface ==
    /\ eg_pc = "new"
    /\ eg_preface' = ConnectionPreface
    /\ preface_sent' = TRUE
    /\ eg_pc' = "write_preface"
    /\ UNCHANGED <<next_stream_id, eg_op, eg_out, eg_steps, goaway_seen,
                   h2vars, hivars, connframe>>

\* server_stream.write_all(&preface).await?
WritePreface(ok) ==
    /\ eg_pc = "write_preface"
    /\ eg_pc' = IF ok THEN "write_initial" ELSE "done"
    /\ UNCHANGED <<next_stream_id, preface_sent, eg_preface, eg_op, eg_out,
                   eg_steps, goaway_seen, h2vars, hivars, connframe>>

\* server_stream.write_all(initial_data).await?, then the relay loop
WriteInitialData(ok) ==
    /\ eg_pc = "write_initial"
    /\ eg_pc' = IF ok THEN "relay" ELSE "done"
    /\ UNCHANGED <<next_stream_id, preface_sent, eg_preface, eg_op, eg_out,
                   eg_steps, goaway_seen, h2vars, hivars, connframe>>

\* A relay loop that hands chunks to the engine before the preface is
\* built.
InRelayLoopOrBefore == eg_pc \in {"new", "relay"}

\* proxy_http2_bidirectional is running: it is entered after the two
\* writes of handle_http2_connection.
InRelayLoop == eg_pc = "relay"

\* The chunks read from the server: the preface literal or not, and at
\* most one frame.
ConnectionChunks == {chunk \in ChunkInputs : Len(chunk.frames) <= 1}

\* The relay loop: handle_incoming_frame(&server_buffer[..n])?; an error
\* ends the loop.
RelayIncoming(chunk) ==
    /\ InRelayLoop
    /\ HandleIncomingFrameCall(chunk)
    /\ eg_pc' = IF hi_ret'.tag = "Err" THEN "done" ELSE eg_pc
    /\ UNCHANGED <<next_stream_id, preface_sent, eg_preface, eg_op, eg_out,
                   eg_steps, goaway_seen, h2vars, connframe>>

\* The relay loop: a chunk holding a DATA frame, in handle_data_frame.
RelayIncomingData(stream_id, length, end_stream) ==
    /\ InRelayLoop
    /\ HandleDataFrame(stream_id, length, end_stream)

\* The relay loop: check_and_send_window_updates after the chunk.
RelayWindowUpdates ==
    /\ InRelayLoop
    /\ CheckAndSendWindowUpdates

\* The debounce interval passes while the relay runs.
RelayTick ==
    /\ InRelayLoop
    /\ Tick

ConnectionNext ==
    \/ BuildConnectionPreface
    \/ \E ok \in BOOLEAN : WritePreface(ok)
    \/ \E ok \in BOOLEAN : WriteInitialData(ok)
    \/ \E chunk \in ConnectionChunks : RelayIncoming(chunk)
    \/ \E id \in FrameIds, n \in DataLengths, es \in BOOLEAN :
          RelayIncomingData(id, n, es)
    \/ RelayWindowUpdates
    \/ RelayTick

(***************************************************************************)
(* proxy.rs: handle_challenge_response, the caller of the redirect-chain   *)
(* tracker.  A response is its status code and the values of its Location  *)
(* header lines, in order; the URL is the target host of the request.      *)
(***************************************************************************)
\* ChallengeHandler::is_redirect
IsRedirect(status_code) == status_code \in {301, 302, 303, 307, 308}

\* ChallengeHandler::add_redirect: the chains it leaves, whatever it
\* returns (the caller drops the result with `let _ =`)
ChainsAfterAddRedirect(chains, original_url, from_url, to_url) ==
    IF original_url \in DOMAIN chains /\ ~ChainFull(chains[original_url])
    THEN [chains EXCEPT ![original_url] = ChainAddRedirect(@, from_url, to_url)]
    ELSE chains

\* handle_challenge_response: the loop over the Location lines
RECURSIVE ChainsAfterLocations(_, _, _)
ChainsAfterLocations(chains, url, locations) ==
    IF locations = << >> THEN chains
    ELSE ChainsAfterLocations(
             ChainsAfterAddRedirect(chains, url, url, Head(locations)),
             url, Tail(locations))

\* handle_challenge_response, the block under the write lock: on a redirect
\* status start_redirect_chain(url), then add_redirect for each Location.
HandleChallengeResponse(url, status_code, locations) ==
    /\ ch_op' = [name |-> "handle_challenge_response", url |-> url,
                 to_url |-> locations, status_code |-> status_code]
    /\ ch_ret' = "none"
    /\ redirect_chains' =
          IF IsRedirect(status_code)
          THEN ChainsAfterLocations(
                   MapInsert(redirect_chains, url, NewRedirectChain(url)),
                   url, locations)
          ELSE redirect_chains
    /\ UNCHANGED chframe

\* Status codes of the responses handled.
StatusCodes == {200, 301, 302, 303, 307, 308}

\* Hosts the responses come from.
ResponseUrls == {0, 1}

\* Location header values of a response: none, one, or two lines.
LocationLists == {<< >>, <<2>>, <<3>>, <<2, 3>>}

ChallengeResponseNext ==
    \E url \in ResponseUrls, status_code \in StatusCodes, locations \in LocationLists :
        HandleChallengeResponse(url, status_code, locations)

(***************************************************************************)
(* Specifications.                                                         *)
(***************************************************************************)
ExtInit ==
    /\ ChInit /\ TlsInit /\ S5Init /\ DpInit /\ PumpInit
    /\ CodecInit /\ IncomingInit /\ HelloInit /\ CleanupInit /\ EngineInit

Init == H2Init /\ RegInit /\ RetryInit /\ ExtInit

\* The HTTP/2 engine driven by received frames and by the sender.
SpecH2 == Init /\ [][H2Next]_vars

\* The process as main.rs wires it.
SpecMain == Init /\ [][MainNext]_vars

\* The process with a caller of initiate_shutdown and graceful_close_all.
SpecShutdown == Init /\ [][ShutdownNext]_vars

\* The same, with the runtime scheduling every runnable task: a handler
\* step that stays possible is eventually taken. Nothing obliges a peer to
\* send or close, the clock to reach the timeout, or a caller to act.
SpecShutdownFair ==
    /\ Init
    /\ [][ShutdownNext]_vars
    /\ \A t \in Tasks : WF_vars(HandlerStep(t))

\* retry_with_backoff with an operation that may succeed or fail each time.
SpecRetry == Init /\ [][RetryNext]_vars

\* The redirect-chain tracker driven by its callers.
SpecChallenge == Init /\ [][ChallengeNext]_vars

\* The session-ticket cache driven by its callers and the clock.
SpecTls == Init /\ [][TlsNext]_vars

\* One connect of the SOCKS5 connector against a server.
SpecSocks5 == Init /\ [][Socks5Next]_vars

\* One connection on the CONNECT or the opaque path, with its upstream dial.
SpecDispatch == Init /\ [][DispatchNext]_vars

\* One relay loop between a client and a server.
SpecRelay == Init /\ [][PumpNext]_vars

\* A frame serialized, carried whole or in part, and parsed.
SpecFrame == Init /\ [][CodecNext]_vars

\* The chunks read from the server handed to the engine one by one.
SpecIncoming == Init /\ [][IncomingNext]_vars

\* The first packet of a connection parsed as a ClientHello and rewritten.
SpecHello == Init /\ [][HelloNext]_vars

\* The handlers, the periodic cleanup and the drain, side by side.
SpecCleanup == Init /\ [][CleanupNext]_vars

\* One engine called by a sender and fed the frames of a peer.
SpecEngine == Init /\ [][EngineNext]_vars

\* The engine of one HTTP/2 connection, as handle_http2_connection runs it.
SpecConnection == Init /\ [][ConnectionNext]_vars

\* The redirect chains under the challenge responses of the HTTP path.
SpecChallengeResponse == Init /\ [][ChallengeResponseNext]_vars

(***************************************************************************)
(* Properties of the HTTP/2 engine.                                        *)
(***************************************************************************)
\* The step is an engine operation (not the clock), named by h2_op'.
IsOp(name) == h2_steps' = h2_steps + 1 /\ h2_op'.name = name

\* C1: the DATA bytes can_send_data has admitted on a stream never exceed
\* the stream's initial window plus the WINDOW_UPDATE increments received
\* for that stream, and the bytes admitted on the connection never exceed
\* the initial connection window plus the increments received for stream 0.
C1_AdmittedWithinPeerCredit ==
    \A id \in FrameIds : admitted[id] <= INITIAL_WINDOW_SIZE + wu_received[id]

\* C2: can_send_data(s, n) returns true only when the window of stream s
\* and the connection window are both at least n, and then decrements both
\* by exactly n; otherwise (a window below n, or no flow-control entry for
\* s) it returns false and leaves both windows unchanged.
C2_CanSendData ==
    [][IsOp("can_send_data") =>
        LET s == h2_op'.id
            n == h2_op'.n
            both == /\ s \in DOMAIN fc_streams
                    /\ fc_streams[s].window_size >= n
                    /\ connection_window >= n
        IN
        /\ h2_ret' = (IF both THEN "true" ELSE "false")
        /\ both => /\ connection_window' = connection_window - n
                   /\ DOMAIN fc_streams' = DOMAIN fc_streams
                   /\ fc_streams'[s].window_size = fc_streams[s].window_size - n
                   /\ \A t \in DOMAIN fc_streams \ {s} : fc_streams'[t] = fc_streams[t]
        /\ ~both => /\ connection_window' = connection_window
                    /\ fc_streams' = fc_streams
    ]_vars

\* C2 witness: after an earlier call that returned true and consumed
\* credit, can_send_data has just returned false for a size the stream
\* window covers but the connection window does not.
C2_Witness ==
    /\ h2_op.name = "can_send_data"
    /\ h2_ret = "false"
    /\ h2_op.id \in DOMAIN fc_streams
    /\ fc_streams[h2_op.id].window_size >= h2_op.n
    /\ connection_window < h2_op.n
    /\ admitted[0] > 0

\* C3: once a debounced window-update pass has run after the last DATA
\* frame, the WINDOW_UPDATE increments emitted for an open stream s sum to
\* the DATA bytes received on s, and those emitted for the connection
\* (stream 0) sum to the DATA bytes received.
C3_WindowUpdatesReturnReceivedData ==
    settled =>
        \A s \in DOMAIN stream_states \ {0} :
            (/\ stream_states[s] = "Open"
             /\ open_data[s] > 0
             /\ \A t \in FrameIds :
                   data_received[t] = (IF t = s THEN open_data[s] ELSE 0))
            => /\ wu_emitted[s] = open_data[s]
               /\ wu_emitted[0] = open_data[s]

\* The reception rules for HEADERS and DATA of the stream transition table.
HeadersAndDataRules ==
    /\ IsOp("HEADERS") /\ h2_op'.id \notin DOMAIN stream_states
         => /\ h2_op'.id \in DOMAIN stream_states'
            /\ stream_states'[h2_op'.id] =
                 (IF h2_op'.es THEN "HalfClosedRemote" ELSE "Open")
    /\ IsOp("DATA") /\ h2_op'.es /\ h2_op'.id \in DOMAIN stream_states
         => /\ stream_states[h2_op'.id] = "Open"
                 => stream_states'[h2_op'.id] = "HalfClosedRemote"
            /\ stream_states[h2_op'.id] = "HalfClosedLocal"
                 => stream_states'[h2_op'.id] = "Closed"

\* C4 as stated: HEADERS opens an Idle (unknown) stream, as HalfClosedRemote
\* with END_STREAM; DATA with END_STREAM moves Open to HalfClosedRemote and
\* HalfClosedLocal to Closed; RST_STREAM received in any state makes the
\* stream Closed and removes its flow-control entry.
C4_TransitionTableAnyState ==
    [][/\ HeadersAndDataRules
       /\ IsOp("RST_STREAM")
            => /\ h2_op'.id \in DOMAIN stream_states'
               /\ stream_states'[h2_op'.id] = "Closed"
               /\ h2_op'.id \notin DOMAIN fc_streams'
    ]_vars

\* C4 amended: as above, but RST_STREAM makes the stream Closed only when
\* the engine knows the stream (any state but Idle); an RST_STREAM for an
\* Idle (unknown) stream leaves it unknown. In both cases the flow-control
\* entry of the stream is removed.
C4_TransitionTable ==
    [][/\ HeadersAndDataRules
       /\ IsOp("RST_STREAM")
            => /\ h2_op'.id \in DOMAIN stream_states
                    => stream_states'[h2_op'.id] = "Closed"
               /\ h2_op'.id \notin DOMAIN stream_states
                    => stream_states' = stream_states
               /\ h2_op'.id \notin DOMAIN fc_streams'
    ]_vars

\* C4 witness: an RST_STREAM has closed a stream that DATA with END_STREAM
\* had moved from Open to HalfClosedRemote, and its flow-control entry is gone.
C4_Witness ==
    /\ h2_op.name = "RST_STREAM"
    /\ h2_op.id \in DOMAIN stream_states
    /\ stream_states[h2_op.id] = "Closed"
    /\ h2_op.id \notin DOMAIN fc_streams
    /\ data_received[h2_op.id] > 0

\* C5: Closed is absorbing on reception: every frame received for a stream
\* whose state is Closed leaves it Closed, and handling it returns no error.
C5_ClosedIsAbsorbing ==
    [][\A id \in DOMAIN stream_states :
          (stream_states[id] = "Closed" /\ h2_steps' = h2_steps + 1
           /\ h2_op'.id = id
           /\ h2_op'.name \in {"DATA", "HEADERS", "PRIORITY", "RST_STREAM",
                                "WINDOW_UPDATE", "CONTINUATION"})
          => /\ id \in DOMAIN stream_states'
             /\ stream_states'[id] = "Closed"
             /\ h2_ret' = "Ok"
    ]_vars


(***************************************************************************)
(* Properties of the registry, the handler tasks and shutdown.             *)
(***************************************************************************)
\* C6: when graceful_close_all returns, the connection registry is empty,
\* whatever register_connection, unregister_connection and mark_activity
\* calls the handler tasks make concurrently.
C6_DrainLeavesRegistryEmpty ==
    [][(drain_pc # "returned" /\ drain_pc' = "returned")
        => DOMAIN gs_connections' = {}]_vars

\* C7: once initiate_shutdown has set the flag, every running relay loop
\* eventually returns, without error, whether or not a peer sends or closes
\* (a task that is aborted meanwhile has no loop left to return).
C7_RelayLoopsExitOnShutdown ==
    \A t \in Tasks :
        (is_shutting_down /\ task_pc[t] \in RelayPcs)
            ~> (relay_ret[t] = "Ok" \/ task_pc[t] = "aborted")

\* C8: a handler task that has ended (returned Ok, returned Err, or was
\* aborted) has removed its connection id from the GracefulShutdown
\* registry and from the ConnectionStateManager.
C8_HandlerAlwaysDeregisters ==
    \A t \in Tasks :
        task_pc[t] \in {"done", "aborted"}
        => /\ task_id[t] \notin DOMAIN gs_connections
           /\ task_id[t] \notin sm_connections

\* C9: once the SIGINT task has handled the signal the shutdown flag is
\* true, and from then on the accept loop spawns no new handler task.
C9_SigintStopsAccepting ==
    [][/\ sigint_pc' = "handled" => is_shutting_down'
       /\ sigint_pc = "handled"
            => \A t \in Tasks : task_pc[t] = "unspawned" => task_pc'[t] = "unspawned"
    ]_vars

(***************************************************************************)
(* Properties of retry_with_backoff.                                       *)
(***************************************************************************)
IsCall(e) == e.ev = "call"

IsSleep(e) == e.ev = "sleep"

\* C10: retry_with_backoff calls the operation sequentially at most 3
\* times; the first success is returned at once, with no further call or
\* sleep; a failed call is followed by a sleep only when another call
\* follows, the sleeps being 100 ms then 200 ms; and when all 3 calls fail
\* the error of the last call is returned after exactly those two sleeps.
C10_RetryWithBackoff ==
    LET n == Len(retry_trace)
        calls == SelectSeq(retry_trace, IsCall)
        sleeps == SelectSeq(retry_trace, IsSleep)
    IN
    /\ Len(calls) <= 3
    /\ \A i \in 1..n :
          (IsCall(retry_trace[i]) /\ retry_trace[i].ok)
          => /\ i = n
             /\ retry_pc = "returned"
             /\ retry_result = [kind |-> "Ok", value |-> retry_trace[i].value]
    /\ \A i \in 1..(n - 1) :
          /\ IsCall(retry_trace[i]) => IsSleep(retry_trace[i + 1])
          /\ IsSleep(retry_trace[i]) => IsCall(retry_trace[i + 1])
    /\ n > 0 => IsCall(retry_trace[1])
    /\ Len(sleeps) <= 2
    /\ Len(sleeps) >= 1 => sleeps[1].value = 100
    /\ Len(sleeps) >= 2 => sleeps[2].value = 200
    /\ retry_pc = "returned"
          => /\ IsCall(retry_trace[n])
             /\ retry_result.kind \in {"Ok", "Err"}
             /\ retry_result.kind = "Ok" => retry_trace[n].ok
             /\ retry_result.kind = "Err"
                  => /\ Len(calls) = 3
                     /\ \A j \in 1..3 : ~calls[j].ok
                     /\ retry_result.value = calls[3].value
                     /\ Len(sleeps) = 2
    /\ retry_pc = "sleep" => (n > 0 /\ IsCall(retry_trace[n]) /\ ~retry_trace[n].ok)

\* C10 witness: three calls failed with three different errors, the two
\* sleeps were taken and the third error was returned.
C10_Witness ==
    /\ retry_pc = "returned"
    /\ retry_result.kind = "Err"
    /\ Len(retry_trace) = 5
    /\ retry_trace[1].value # retry_trace[3].value
    /\ retry_trace[3].value # retry_trace[5].value
    /\ retry_trace[1].value # retry_trace[5].value

(***************************************************************************)
(* Redirect chains (challenge.rs).                                         *)
(***************************************************************************)
\* The last step was a call of add_redirect for a stored chain.
IsAddRedirect ==
    /\ ch_op'.name = "add_redirect"
    /\ ch_op'.url \in DOMAIN redirect_chains

\* C11: after any sequence of start_redirect_chain and add_redirect calls,
\* every stored redirect chain has at most 10 entries and no URL occurs
\* twice among the to_url of its entries.
C11_ChainsBoundedAndLoopFree ==
    \A u \in DOMAIN redirect_chains :
        /\ RedirectCount(redirect_chains[u]) <= MAX_REDIRECTS
        /\ ~HasLoop(redirect_chains[u])

\* C12: add_redirect returns the RedirectLoop error and leaves the chain as
\* it was whenever the new to_url equals the URL the chain was started at or
\* the to_url of an earlier entry (the chain not being full).
C12_LoopRejectedChainUnchanged ==
    [][ (/\ IsAddRedirect
         /\ ~ChainFull(redirect_chains[ch_op'.url])
         /\ \/ ch_op'.to_url = redirect_chains[ch_op'.url].original_url
            \/ \E i \in DOMAIN redirect_chains[ch_op'.url].redirects :
                  redirect_chains[ch_op'.url].redirects[i].to_url = ch_op'.to_url)
        => /\ ch_ret' = "RedirectLoop"
           /\ redirect_chains' = redirect_chains
      ]_vars

\* C13: on a chain whose targets, the new one included, are pairwise
\* distinct, add_redirect returns Ok and appends the entry while the chain
\* has fewer than 10 entries (the 1st to the 10th extension), and returns
\* TooManyRedirects on the 11th, leaving the chain at exactly 10 entries.
C13_TenthSucceedsEleventhFails ==
    [][ (/\ IsAddRedirect
         /\ ~HasLoop(ChainAddRedirect(redirect_chains[ch_op'.url], 0, ch_op'.to_url)))
        => LET u == ch_op'.url
               chain == redirect_chains[u]
           IN  /\ RedirectCount(chain) <= MAX_REDIRECTS
               /\ RedirectCount(chain) < MAX_REDIRECTS
                    => /\ ch_ret' = "Ok"
                       /\ RedirectCount(redirect_chains'[u]) = RedirectCount(chain) + 1
                       /\ FinalUrl(redirect_chains'[u]) = ch_op'.to_url
                       /\ \A i \in DOMAIN chain.redirects :
                             redirect_chains'[u].redirects[i] = chain.redirects[i]
               /\ RedirectCount(chain) = MAX_REDIRECTS
                    => /\ ch_ret' = "TooManyRedirects"
                       /\ redirect_chains' = redirect_chains
                       /\ RedirectCount(redirect_chains'[u]) = 10
      ]_vars

\* C13 witness: the 11th extension of a chain of 10 pairwise distinct
\* targets, by a target that is none of them, was refused.
C13_Witness ==
    /\ ch_op.name = "add_redirect"
    /\ ch_ret = "TooManyRedirects"
    /\ ch_op.url \in DOMAIN redirect_chains
    /\ RedirectCount(redirect_chains[ch_op.url]) = 10
    /\ ~HasLoop(ChainAddRedirect(redirect_chains[ch_op.url], 0, ch_op.to_url))

(***************************************************************************)
(* Session-ticket cache (tls.rs).                                          *)
(***************************************************************************)
\* C14: under any interleaving of store, get and cleanup_expired with the
\* clock advancing, get(domain) returns the bytes of the most recent store
\* for the domain if and only if that store happened at most 7200 s before
\* the lookup, and nothing otherwise.
C14_GetReturnsFreshTicketOnly ==
    [][ (tls_op'.name = "get" /\ now' = now)
        => LET d == tls_op'.domain IN
           tls_ret' = IF /\ d \in DOMAIN last_store
                         /\ now - last_store[d].at <= 7200
                      THEN last_store[d].ticket
                      ELSE 0
      ]_vars

\* C14 witness: get has just returned nothing for a domain whose ticket is
\* older than 7200 s and still in the map, the cleaner not having run since.
C14_Witness ==
    /\ tls_op.name = "get"
    /\ tls_ret = 0
    /\ tls_op.domain \in DOMAIN tickets
    /\ now - tickets[tls_op.domain].timestamp > 7200

(***************************************************************************)
(* SOCKS5 connector (socks5.rs).                                           *)
(***************************************************************************)
\* The messages of the given kind among those written to the server.
Sent(msg) == {i \in DOMAIN s5_tx : s5_tx[i].msg = msg}

\* C15: the connector performs the username/password sub-negotiation if and
\* only if the method-selection reply selected 0x02 (a server that selects
\* 0x00 receives no sub-negotiation bytes), and it sends the CONNECT request
\* only after the method-selection reply and, when the sub-negotiation is
\* performed, the success reply [0x01, 0x00] have been received.
C15_SubNegotiationIffSelected ==
    /\ Sent("auth") # {} => s5_method = SOCKS5_AUTH_PASSWORD
    /\ (Sent("connect") # {} /\ s5_method = SOCKS5_AUTH_PASSWORD) => Sent("auth") # {}
    /\ Sent("connect") # {}
         => /\ s5_method # -1
            /\ Sent("auth") # {} => s5_auth = <<1, 0>>

\* C16: connect returns the socket only after a CONNECT reply of version 5
\* with reply code 0x00 and a known address type, and after consuming
\* exactly the bound address and port that follow it, so that every byte
\* left in the stream is tunnel data and no tunnel byte was consumed; a reply
\* with a non-zero code, a wrong version or an unknown address type fails
\* the connect.
C16_ConnectReplyConsumedExactly ==
    /\ s5_result = "Ok"
         => /\ s5_reply.ver = 5
            /\ s5_reply.rep = 0
            /\ s5_reply.atyp \in {1, 3, 4}
            /\ s5_served = Len(s5_tx)
            /\ Len(s5_rx) = s5_tunnel_sent
            /\ \A i \in DOMAIN s5_rx : s5_rx[i] = TunnelByte
    /\ (/\ s5_reply # NoReply
        /\ \/ s5_reply.ver # 5
           \/ s5_reply.rep # 0
           \/ s5_reply.atyp \notin {1, 3, 4})
         => s5_result = "Err"

\* C16 witness: connect returned Ok after a reply with a bound domain name
\* of two bytes, the server having already sent its first tunnel byte.
C16_Witness ==
    /\ s5_result = "Ok"
    /\ s5_reply.atyp = 3
    /\ s5_skip = 4
    /\ s5_rx = <<TunnelByte>>

(***************************************************************************)
(* CONNECT path and upstream dial (proxy.rs).                              *)
(***************************************************************************)
\* C17: on the CONNECT path the 200 reply is written to the client only
\* after the upstream dial has succeeded, and the client's first chunk is
\* forwarded upstream only after that reply; when the dial fails nothing is
\* written to the client and the handler ends with an error.
C17_ReplyAfterDialFirstChunkAfterReply ==
    dp_path = "connect"
    => /\ dp_client_out # << >> => (dp_dial = "Ok" /\ dp_client_out = <<"200">>)
       /\ dp_upstream_out # << >>
            => (dp_client_out = <<"200">> /\ dp_upstream_out = <<"first">>)
       /\ dp_dial = "Err"
            => /\ dp_client_out = << >>
               /\ dp_upstream_out = << >>
               /\ dp_pc = "done"
               /\ dp_result = "Err"

\* C17 witness: through a SOCKS5 proxy, the dial succeeded, the 200 reply
\* was written and the first chunk then went upstream.
C17_Witness ==
    /\ dp_path = "connect"
    /\ dp_proxy_type = "socks5"
    /\ dp_dial = "Ok"
    /\ dp_client_out = <<"200">>
    /\ dp_upstream_out = <<"first">>
    /\ dp_pc = "relay"

\* C19: for every proxy type, a connection handler that fails because the
\* TCP dial of the upstream endpoint failed has attempted that dial 3 times,
\* while a non-success reply in the proxy handshake fails the connection
\* without a further dial.
C19_DialRetriedForEveryProxyType ==
    /\ TcpDialFailed => DialAttempts = MAX_RETRIES
    /\ (dp_dial = "Err" /\ ~TcpDialFailed) => DialAttempts = 1

(***************************************************************************)
(* Relay data path (proxy.rs).                                             *)
(***************************************************************************)
IsPrefix(a, b) == Len(a) <= Len(b) /\ \A i \in 1..Len(a) : a[i] = b[i]

\* The two directions of a relay, as <<source, destination>>.
Directions == {<<"client", "server">>, <<"server", "client">>}

IsChunk(x) == x.kind = "chunk"

\* The chunks among what was written to a peer.
ForwardedTo(dest) == SelectSeq(rl_written[dest], IsChunk)

\* The chunk last read from this side is still to be written.
InFlight(source) == rl_source = source /\ rl_pc \in {"process", "inject", "write"}

\* In each direction, the sequence w[destination] is the sequence of chunks
\* read from the source: all of them between two iterations of the loop, all
\* but the one being forwarded during an iteration, and all but at most the
\* last one once the loop has ended.
InOrderNoLoss(w) ==
    \A d \in Directions :
        /\ IsPrefix(w[d[2]], rl_read[d[1]])
        /\ Len(w[d[2]]) >= Len(rl_read[d[1]]) - 1
        /\ (rl_pc \in {"top", "select"} \/ (rl_pc # "done" /\ ~InFlight(d[1])))
              => w[d[2]] = rl_read[d[1]]

\* C18 as stated: in each direction the relay writes to the destination
\* exactly the chunks read from the source, in order, and after a
\* zero-length read nothing more is written to either peer.
C18_WritesExactlyChunksRead ==
    [][ /\ InOrderNoLoss(rl_written)'
        /\ rl_zero => rl_written' = rl_written
      ]_vars

\* C18, amended: the chunks the relay forwards to a peer are exactly the
\* chunks read from the other peer, in order, none dropped, duplicated or
\* reordered while the relay runs; beside them only the HTTP/2 relay writes
\* anything, namely the frames of the engine, and only to the server while
\* a chunk read from the server waits to be forwarded; after a zero-length
\* read nothing more is written to either peer.
C18_ForwardsExactlyChunksRead ==
    [][ /\ InOrderNoLoss([s \in Sides |-> ForwardedTo(s)])'
        /\ rl_written'["client"] = ForwardedTo("client")'
        /\ rl_kind' = "plain" => rl_written'["server"] = ForwardedTo("server")'
        /\ rl_written'["server"] # rl_written["server"]
           /\ ~IsChunk(rl_written'["server"][Len(rl_written'["server"])])
              => (rl_kind = "h2" /\ rl_source = "server" /\ rl_pc = "inject")
        /\ rl_zero => rl_written' = rl_written
      ]_vars

\* C18 witness: an HTTP/2 relay has forwarded two chunks in each direction
\* and has written frames of the engine to the server in between.
C18_Witness ==
    /\ rl_kind = "h2"
    /\ ForwardedTo("server") = <<Chunk("client", 1), Chunk("client", 2)>>
    /\ ForwardedTo("client") = <<Chunk("server", 1), Chunk("server", 2)>>
    /\ Len(rl_written["server"]) > 2

(***************************************************************************)
(* Connection identifiers (state.rs).                                      *)
(***************************************************************************)
\* The handler tasks whose create_connection call has returned.
HasId(t) == task_pc[t] \notin {"unspawned", "spawned"}

\* C20: whatever the order in which the handler tasks call it,
\* create_connection returns an identifier greater than every identifier it
\* returned before, hence pairwise distinct ones, and the identifier is in
\* the connection map when the call returns.
C20_CreateConnectionIds ==
    [][ \A t \in Tasks :
          (~HasId(t) /\ HasId(t)')
          => /\ task_id'[t] \in sm_connections'
             /\ \A u \in Tasks \ {t} : HasId(u) => task_id'[t] > task_id[u]
      ]_vars

\* C20 witness: two handler tasks hold identifiers, task 2 having called
\* create_connection before task 1, and both identifiers are in the map.
C20_Witness ==
    /\ HasId(1) /\ HasId(2)
    /\ task_id[2] = 1
    /\ task_id[1] = 2
    /\ {1, 2} \subseteq sm_connections

(***************************************************************************)
(* Properties of the frame codec.                                          *)
(***************************************************************************)
\* The frame given to serialize is one the round trip is stated for.
RoundTripInput ==
    /\ cd_frame.length = Len(cd_frame.payload)
    /\ cd_frame.length <= MAX_FRAME_SIZE
    /\ cd_frame.stream_id[1] < 128

\* C21: for every frame whose length field equals its payload length, is at
\* most MAX_FRAME_SIZE, and whose stream id is below 2^31, parsing the
\* serialized frame gives the frame back; the serialized stream id always
\* has its high bit cleared; and parse fails on a buffer of fewer than
\* 9 + length bytes.
C21_FrameRoundTrip ==
    /\ (cd_pc = "parsed" /\ ~cd_short /\ RoundTripInput)
          => cd_parsed = [tag |-> "Ok", frame |-> cd_frame]
    /\ (cd_pc \in {"bytes", "parsed"} /\ ~cd_short) => cd_buf[6] < 128
    /\ (cd_pc = "parsed" /\ (Len(cd_buf) < 9 \/ Len(cd_buf) < 9 + LengthOf(cd_buf)))
          => cd_parsed.tag = "Err"

(***************************************************************************)
(* Properties of handle_incoming_frame.                                    *)
(***************************************************************************)
\* The step is a handle_incoming_frame call whose chunk starts, after the
\* preface if the engine still expects one, with a frame.
CallOnFrame ==
    /\ hivars' # hivars
    /\ hi_chunk'.frames # << >>
    /\ hi_chunk'.preface => ~preface_received

\* The frame a CallOnFrame step hands to process_frame.
FrameHandled == Head(hi_chunk'.frames)

RECURSIVE ProcessEach(_, _)
ProcessEach(frames, remote) ==
    IF frames = << >>
    THEN Handled(<< >>, remote)
    ELSE LET first == ProcessWireFrame(Head(frames), remote)
             others == ProcessEach(Tail(frames), first.remote)
         IN  Handled(first.bytes \o others.bytes, others.remote)

\* C30: when a chunk holds several complete frames back to back, after the
\* preface or not, handle_incoming_frame processes every frame in order:
\* each takes effect on the engine state and each SETTINGS or PING without
\* the ACK flag gets its own response.
C30_EveryFrameOfChunkProcessed ==
    [][(hivars' # hivars /\ (hi_chunk'.preface => ~preface_received)) =>
          /\ hi_ret' = [tag |-> "Ok",
                        bytes |-> ProcessEach(hi_chunk'.frames, remote_settings).bytes]
          /\ remote_settings' = ProcessEach(hi_chunk'.frames, remote_settings).remote
          /\ hi_chunk'.preface => preface_received']_vars

(***************************************************************************)
(* Properties of the ClientHello parser and rewriter.                      *)
(***************************************************************************)
\* The rewritten ClientHello, read with the parser of the program.
Rewritten == ParseHello(hello_out)

\* C24: the rewritten ClientHello carries the same 32-byte random and the
\* same session id, byte for byte, as the original.
C24_RandomAndSessionIdPreserved ==
    hello_pc = "rewritten" =>
        /\ Rewritten.tag = "Ok"
        /\ Rewritten.random = hello_parsed.random
        /\ Rewritten.session_id = hello_parsed.session_id

\* A list without its repeated elements, the first occurrence kept.
RECURSIVE Dedup(_, _)
Dedup(list, seen) ==
    IF list = << >> THEN << >>
    ELSE IF Head(list) \in seen
    THEN Dedup(Tail(list), seen)
    ELSE <<Head(list)>> \o Dedup(Tail(list), seen \cup {Head(list)})

\* C25: the cipher list of the rewritten ClientHello is 0x1301, 0x1302,
\* 0x1303 followed by the original list in its order, duplicates removed
\* keeping the first occurrence; for [0xC02B] it is
\* [0x1301, 0x1302, 0x1303, 0xC02B].
C25_CipherListPrependsTls13 ==
    hello_pc = "rewritten" =>
        /\ Rewritten.tag = "Ok"
        /\ Rewritten.cipher_suites =
              Dedup(<<4865, 4866, 4867>> \o hello_parsed.cipher_suites, {})
        /\ hello_parsed.cipher_suites = <<49195>> =>
              Rewritten.cipher_suites = <<4865, 4866, 4867, 49195>>

\* C26: parse returns an error, without panicking, for every input of fewer
\* than 43 bytes, with a record type other than 0x16, a handshake type other
\* than 0x01, an odd cipher-suite length, or a session-id, cipher-suite or
\* compression length that overruns the buffer; a well-formed input of the
\* minimum length parses.
C26_ParseRejectsMalformedInput ==
    hello_pc \notin {"new", "received"} =>
        /\ hello_data \in ShortHellos \cup WrongTypeHellos
                             \cup OddCipherLengthHellos \cup OverrunHellos
              => hello_parsed.tag = "Err"
        /\ hello_data = MinimalHello => hello_parsed.tag = "Ok"

\* C27: on the HTTP/2 relay, a control frame of the engine is written to
\* the upstream socket only at a frame boundary of the client-to-upstream
\* byte stream, never between two parts of a client frame that arrived in
\* separate reads: the client chunk written last before it, if any, does
\* not end inside a frame.
C27_InjectedAtFrameBoundary ==
    rl_kind = "h2" =>
        \A i \in 1..Len(rl_written["server"]) :
            ~IsChunk(rl_written["server"][i]) =>
                \A j \in 1..(i - 1) :
                    (/\ IsChunk(rl_written["server"][j])
                     /\ \A k \in (j + 1)..(i - 1) : ~IsChunk(rl_written["server"][k]))
                        => rl_written["server"][j].seq \notin rl_cut

(***************************************************************************)
(* Properties of the periodic cleanup.                                     *)
(***************************************************************************)
\* C28: cleanup_idle_connections removes a connection only if, at the
\* moment of removal, its last activity is older than the idle threshold
\* and it is not marked is_closing, under every interleaving with
\* mark_activity and graceful_close_all.
C28_RemovedOnlyWhenIdleAndNotClosing ==
    [][(cleanup_pc = "remove" /\ cleanup_pc' = "waiting") =>
          \A id \in (DOMAIN gs_connections) \ (DOMAIN gs_connections') :
              /\ gs_connections[id].idle
              /\ ~gs_connections[id].is_closing]_vars

\* C29: a connection whose handler is still running and whose relay
\* forwards at least once every 300 s (its entry has never been idle) is in
\* both registries, unless the drain has force-cleared the registry.
C29_ActiveConnectionKeptInBothRegistries ==
    \A t \in Tasks :
        (/\ task_pc[t] \in RelayPcs
         /\ task_id[t] \notin cu_lapsed
         /\ drain_pc \notin {"cleared", "returned"})
            => /\ task_id[t] \in DOMAIN gs_connections
               /\ task_id[t] \in sm_connections

(***************************************************************************)
(* Properties of the relay on a chunk that is no frame.                    *)
(***************************************************************************)
\* C31: on the HTTP/2 relay, a chunk read from the server that cannot be
\* parsed as a frame (fewer than 9 bytes) does not end the relay: the step
\* that handles it leaves the loop running, with the chunk still to be
\* forwarded to the client.
C31_UnparsedChunkKeepsRelayRunning ==
    [][(rl_kind = "h2" /\ rl_pc = "process" /\ ~ChunkParses)
          => rl_pc' \in {"process", "inject", "write"}]_vars

(***************************************************************************)
(* Properties of the engine under the calls of a sender and the frames of  *)
(* a peer.                                                                 *)
(***************************************************************************)
\* The step is a call on the engine, named by eg_op'.
IsCallOn(name) == eg_steps' = eg_steps + 1 /\ eg_op'.name = name

\* C32: a received WINDOW_UPDATE frame whose increment is 0 is answered
\* with an error frame: RST_STREAM carrying PROTOCOL_ERROR (0x1) on a
\* stream, GOAWAY carrying PROTOCOL_ERROR on the connection (stream 0).
C32_ZeroIncrementIsAnError ==
    (/\ eg_op.name = "WINDOW_UPDATE"
     /\ Len(eg_op.frame.payload) >= 4
     /\ U32At(eg_op.frame.payload, 0) = 0)
        => /\ Len(eg_out) >= 9
           /\ LET reply == Parse(eg_out).frame IN
              IF eg_op.stream_id # 0
              THEN /\ reply.frame_type = FRAME_RST_STREAM
                   /\ reply.payload = U32Bytes(1)
              ELSE /\ reply.frame_type = FRAME_GOAWAY
                   /\ Len(reply.payload) = 8
                   /\ SubSeq(reply.payload, 5, 8) = U32Bytes(1)

\* C33: once a GOAWAY frame has been received, no call adds a stream
\* entry, and a stream that exists keeps its entry.
C33_NoNewStreamAfterGoaway ==
    [][goaway_seen => DOMAIN stream_states' = DOMAIN stream_states]_vars

\* C35: a build_headers_frame or build_data_frame call with end_stream set
\* for a stream takes the stream from Open to HalfClosedLocal and from
\* HalfClosedRemote to Closed.
C35_LocalEndStreamMovesState ==
    [][(/\ IsCallOn("build_headers_frame") \/ IsCallOn("build_data_frame")
        /\ eg_op'.end_stream
        /\ eg_op'.stream_id \in DOMAIN stream_states)
          => LET s == eg_op'.stream_id IN
             /\ stream_states[s] = "Open" => stream_states'[s] = "HalfClosedLocal"
             /\ stream_states[s] = "HalfClosedRemote" => stream_states'[s] = "Closed"]_vars

\* The identifiers carried by a SETTINGS payload.
CarriedIds(payload) == {U16At(payload, 6 * k) : k \in 0..((Len(payload) \div 6) - 1)}

\* The value of the last setting of the payload that carries the id.
LastCarried(payload, id) ==
    LET k == CHOOSE k \in 0..((Len(payload) \div 6) - 1) :
                 /\ U16At(payload, 6 * k) = id
                 /\ \A j \in (k + 1)..((Len(payload) \div 6) - 1) :
                        U16At(payload, 6 * j) # id
    IN  U32At(payload, 6 * k + 2)

\* The stored value of a known identifier (enable_push as 0 or 1).
StoredValue(settings, id) ==
    CASE id = 1 -> settings.header_table_size
      [] id = 2 -> IF settings.enable_push THEN 1 ELSE 0
      [] id = 3 -> settings.max_concurrent_streams
      [] id = 4 -> settings.initial_window_size
      [] id = 5 -> settings.max_frame_size
      [] id = 6 -> settings.max_header_list_size

\* C36: a received non-ACK SETTINGS frame, peer settings being stored,
\* leaves for each identifier 1..6 the value the frame carries for it, and
\* its previously stored value when the frame does not carry it.
C36_SettingsOverwrittenById ==
    [][(/\ IsCallOn("SETTINGS")
        /\ ~HasAck(eg_op'.frame)
        /\ remote_settings.tag = "Some")
          => /\ remote_settings'.tag = "Some"
             /\ \A id \in 1..6 :
                   StoredValue(remote_settings'.settings, id) =
                      IF id \in CarriedIds(eg_op'.frame.payload)
                      THEN LastCarried(eg_op'.frame.payload, id)
                      ELSE StoredValue(remote_settings.settings, id)]_vars

\* C37: a received SETTINGS frame whose initial_window_size differs from
\* the stored one adds the difference to the window of every existing
\* stream and leaves the connection window as it is.
C37_InitialWindowDeltaApplied ==
    [][(/\ IsCallOn("SETTINGS")
        /\ remote_settings.tag = "Some"
        /\ remote_settings'.tag = "Some"
        /\ remote_settings'.settings.initial_window_size
              # remote_settings.settings.initial_window_size)
          => /\ connection_window' = connection_window
             /\ DOMAIN fc_streams' = DOMAIN fc_streams
             /\ \A id \in DOMAIN fc_streams :
                   fc_streams'[id].window_size =
                      fc_streams[id].window_size
                        + remote_settings'.settings.initial_window_size
                        - remote_settings.settings.initial_window_size]_vars

\* Following depends_on from id reaches the root 0, or a stream the tree
\* does not hold, within `fuel` steps.
RECURSIVE ReachesRoot(_, _, _)
ReachesRoot(tree, id, fuel) ==
    IF id = 0 \/ id \notin DOMAIN tree THEN TRUE
    ELSE IF fuel = 0 THEN FALSE
    ELSE ReachesRoot(tree, tree[id].depends_on, fuel - 1)

\* C38: the priority tree has no dependency cycle.
C38_PriorityTreeAcyclic ==
    \A id \in DOMAIN priority_tree :
        ReachesRoot(priority_tree, id, Cardinality(DOMAIN priority_tree))

C39_ExistingChainExtended ==
    [][(/\ ch_op'.name = "handle_challenge_response"
        /\ IsRedirect(ch_op'.status_code)
        /\ ch_op'.url \in DOMAIN redirect_chains)
          => LET old == redirect_chains[ch_op'.url].redirects
                 new == redirect_chains'[ch_op'.url].redirects
             IN  /\ IsPrefix(old, new)
                 /\ Len(ch_op'.to_url) = 1 => Len(new) = Len(old) + 1]_vars

(***************************************************************************)
(* Properties of the WINDOW_UPDATE frames the engine emits.                *)
(***************************************************************************)
\* The windows a WINDOW_UPDATE naming id can be about: the connection
\* window for id 0, and the window of the stream entry with that id (the
\* code accepts a stream entry 0).
WindowsNamed(conn, streams, id) ==
    (IF id = 0 THEN {conn} ELSE {})
        \cup (IF id \in DOMAIN streams THEN {streams[id].window_size} ELSE {})

\* C40: every WINDOW_UPDATE frame check_and_send_window_updates emits is
\* for a window w that was below 524288 and carries the increment
\* 1048576 - w, which lies in 524289..1048576; when the pass runs (the
\* debounce interval has elapsed) every window that was below 524288 gets
\* one frame and is left at 1048576; a window at or above 524288 gets no
\* frame and is left as it was.
C40_WindowUpdateRestoresInitialWindow ==
    [][IsOp("check_and_send_window_updates") =>
          LET low == {id \in DOMAIN fc_streams :
                         elapsed /\ fc_streams[id].window_size < 524288}
              conn_low == elapsed /\ connection_window < 524288
          IN
          /\ \A i \in DOMAIN frames_out' :
                \E w \in WindowsNamed(connection_window, fc_streams, frames_out'[i][1]) :
                    /\ w < 524288
                    /\ frames_out'[i][2] = 1048576 - w
                    /\ frames_out'[i][2] \in 524289..1048576
          /\ Len(frames_out') = Cardinality(low) + (IF conn_low THEN 1 ELSE 0)
          /\ connection_window' = IF conn_low THEN 1048576 ELSE connection_window
          /\ DOMAIN fc_streams' = DOMAIN fc_streams
          /\ \A id \in DOMAIN fc_streams :
                fc_streams'[id].window_size =
                    IF id \in low THEN 1048576 ELSE fc_streams[id].window_size
          /\ \A id \in low :
                \E i \in DOMAIN frames_out' :
                    frames_out'[i] = <<id, 1048576 - fc_streams[id].window_size>>
          /\ conn_low =>
                \E i \in DOMAIN frames_out' :
                    frames_out'[i] = <<0, 1048576 - connection_window>>]_vars

\* A pass has emitted a WINDOW_UPDATE for the connection and one for a
\* stream.
C40_Witness ==
    /\ h2_op.name = "check_and_send_window_updates"
    /\ Len(frames_out) = 2
    /\ frames_out[1][1] = 0
    /\ frames_out[2][1] # 0
    /\ frames_out[2][2] = 600000

====
